---- MODULE Spec2Model ----
(***************************************************************************)
(* Model of the AI-response pipeline of src/src/ai_analysis.py:            *)
(* _normalize_top_keys, _parse_response_text, _run_gemini, the three       *)
(* analyze_* functions and the module-level AIAnalysisCache; of the cache   *)
(* key (_hash_patient_payload); of the score functions of                  *)
(* src/src/scores.py (classify_asa, rcri_score, ariscat_score,             *)
(* akics_score, pre_deliric_score); and of calculate_ariscat of            *)
(* src/src/risk_scores.py.                                                 *)
(*                                                                         *)
(* Representation.                                                         *)
(*  - A Python dict is the sequence of its items [k, v] in insertion       *)
(*    order, keys unique.                                                  *)
(*  - A JSON/Python value is a record [t, items, sub]: t is its type tag   *)
(*    ("str", "list", "num", "null", "dict"), items holds the string, the  *)
(*    digits or the list elements, sub the items of a dict. The values of  *)
(*    a nested dict are leaves [t, items].                                 *)
(*  - A text is a sequence of tokens [c, syn, m]: c is "sp" (blank), "nl"  *)
(*    (line break), "fence" (three backquotes), "w" (a prose word), "{",   *)
(*    "}", "lit" (a JSON/Python literal that is no object, e.g. [1,2]) or  *)
(*    "body" (the member list of an object, written in JSON syntax or in   *)
(*    Python-literal syntax, m its items).                                 *)
(*  - An optional text (Optional[str]) is [some, t]; None is [some=FALSE]. *)
(***************************************************************************)
EXTENDS Integers, Sequences, FiniteSets, TLC

VARIABLES
    cache,      \* AIAnalysisCache._cache: cache key -> stored entry
    pc,         \* per caller: position inside analyze_*
    call,       \* per caller: locals of the running analyze_* / _run_gemini
    ret,        \* per caller: the tuple returned by the finished call
    runs,       \* history: _run_gemini invocations per function and payload
    firstRet,   \* history: what the uncached call for a payload returned
    pIn,        \* the pure function checked on its own: its arguments
    pOut        \* the pure function checked on its own: its result

vars == <<cache, pc, call, ret, runs, firstRet, pIn, pOut>>

-----------------------------------------------------------------------------
(* Values and dicts *)

LStr(s) == [t |-> "str", items |-> <<s>>]
LNum(n) == [t |-> "num", items |-> <<n>>]
LList(xs) == [t |-> "list", items |-> xs]
LNull == [t |-> "null", items |-> <<>>]

Val(leaf) == [t |-> leaf.t, items |-> leaf.items, sub |-> <<>>]
Dict(items) == [t |-> "dict", items |-> <<>>, sub |-> items]
Item(k, v) == [k |-> k, v |-> v]

Has(d, k) == \E i \in 1..Len(d) : d[i].k = k
Get(d, k) == d[CHOOSE i \in 1..Len(d) : d[i].k = k].v
Put(d, k, v) ==
    IF Has(d, k)
    THEN [i \in 1..Len(d) |-> IF d[i].k = k THEN Item(k, v) ELSE d[i]]
    ELSE Append(d, Item(k, v))
SetDefault(d, k, v) == IF Has(d, k) THEN d ELSE Append(d, Item(k, v))
Keys(d) == {d[i].k : i \in 1..Len(d)}

\* Python truthiness of a value: "", [], {}, 0 and None are falsy.
Truthy(v) ==
    CASE v.t = "str" -> v.items[1] /= ""
      [] v.t = "num" -> v.items[1] /= "0"
      [] v.t = "list" -> v.items /= <<>>
      [] v.t = "dict" -> v.sub /= <<>>
      [] OTHER -> FALSE

\* str(v): the string itself, the digits of a number, the repr of another
\* value.
StrOf(v) == IF v.t \in {"str", "num"} THEN v.items[1] ELSE "repr"

-----------------------------------------------------------------------------
(* _normalize_top_keys *)

key_aliases(k) ==
    CASE k = "resumo" -> "resumo_executivo"
      [] k = "executive_summary" -> "resumo_executivo"
      [] k = "analise_por_sistemas" -> "por_sistemas"
      [] k = "analise_sistemas" -> "por_sistemas"
      [] k = "estratificação_geral" -> "estratificacao_geral"
      [] k = "overall_risk" -> "estratificacao_geral"
      [] k = "recomendações" -> "recomendacoes"
      [] k = "recommendations" -> "recomendacoes"
      [] k = "medicações" -> "medicacoes"
      [] k = "medications" -> "medicacoes"
      [] k = "monitorização" -> "monitorizacao"
      [] k = "monitoring" -> "monitorizacao"
      [] OTHER -> k

m_alias(k) ==
    CASE k = "suspensão" -> "suspender"
      [] k = "hold" -> "suspender"
      [] k = "continuar" -> "manter"
      [] k = "continue" -> "manter"
      [] k = "adjust" -> "ajustar"
      [] OTHER -> k

EmptyBuckets ==
    <<Item("suspender", LList(<<>>)), Item("manter", LList(<<>>)),
      Item("ajustar", LList(<<>>))>>

\* Mutant of RenameTop: every item is copied under the key it came with.
RenameTopKept(data, out) == data \o out

\* for k, v in data.items(): out[key_aliases.get(k, k)] = v
RECURSIVE RenameTop(_, _)
RenameTop(data, out) ==
    IF data = <<>> THEN out
    ELSE RenameTop(Tail(data), Put(out, key_aliases(Head(data).k), Head(data).v))

\* One iteration of the loop over the medication sub-object.
MedStep(m_out, k, v) ==
    LET kk == m_alias(k)
        m1 == SetDefault(m_out, kk, LList(<<>>))
    IN  IF v.t = "list" THEN Put(m1, kk, v)
        ELSE IF Truthy(v) THEN Put(m1, kk, LList(<<StrOf(v)>>))
        ELSE m1

RECURSIVE MedLoop(_, _)
MedLoop(meds, m_out) ==
    IF meds = <<>> THEN m_out
    ELSE MedLoop(Tail(meds), MedStep(m_out, Head(meds).k, Head(meds).v))

\* meds = out.get("medicacoes") or {}; a non-dict counts as {}.
MedsOf(out) ==
    IF Has(out, "medicacoes") /\ Get(out, "medicacoes").t = "dict"
    THEN Get(out, "medicacoes").sub
    ELSE <<>>

NormalizeMeds(out) == Put(out, "medicacoes", Dict(MedLoop(MedsOf(out), EmptyBuckets)))

TopDefaults(out) ==
    SetDefault(SetDefault(SetDefault(SetDefault(out,
        "resumo_executivo", Val(LStr(""))),
        "por_sistemas", Dict(<<>>)),
        "estratificacao_geral", Val(LStr(""))),
        "recomendacoes", Val(LList(<<>>)))

_normalize_top_keys(data) ==
    SetDefault(NormalizeMeds(TopDefaults(RenameTop(data, <<>>))),
               "monitorizacao", Val(LList(<<>>)))

-----------------------------------------------------------------------------
(* Texts *)

Tok(c) == [c |-> c, syn |-> "", m |-> <<>>]
Body(syn, m) == [c |-> "body", syn |-> syn, m |-> m]

None == [some |-> FALSE, t |-> <<>>]
Some(t) == [some |-> TRUE, t |-> t]
\* Python truthiness of an Optional[str]: None and "" are falsy.
TextTruthy(o) == o.some /\ o.t /= <<>>

IsWs(tok) == tok.c \in {"sp", "nl"}

RECURSIVE LStrip(_)
LStrip(t) == IF t /= <<>> /\ IsWs(Head(t)) THEN LStrip(Tail(t)) ELSE t

RECURSIVE RStrip(_)
RStrip(t) ==
    IF t /= <<>> /\ IsWs(t[Len(t)]) THEN RStrip(SubSeq(t, 1, Len(t) - 1)) ELSE t

\* str.strip()
Strip(t) == RStrip(LStrip(t))

\* str.splitlines() of a text that does not end in a line break
RECURSIVE SplitFrom(_, _, _)
SplitFrom(t, cur, acc) ==
    IF t = <<>> THEN Append(acc, cur)
    ELSE IF Head(t).c = "nl" THEN SplitFrom(Tail(t), <<>>, Append(acc, cur))
    ELSE SplitFrom(Tail(t), Append(cur, Head(t)), acc)

splitlines(t) == IF t = <<>> THEN <<>> ELSE SplitFrom(t, <<>>, <<>>)

\* "\n".join(lines)
RECURSIVE join(_)
join(lines) ==
    IF lines = <<>> THEN <<>>
    ELSE IF Len(lines) = 1 THEN lines[1]
    ELSE lines[1] \o <<Tok("nl")>> \o join(Tail(lines))

\* str.startswith("```")
StartsFence(t) == t /= <<>> /\ t[1].c = "fence"

\* Lines 211-214: drop the first and the last line of a fenced text.
StripFence(t) ==
    IF StartsFence(t)
    THEN LET lines == splitlines(t)
         IN  IF Len(lines) >= 3 /\ StartsFence(lines[1])
                /\ StartsFence(Strip(lines[Len(lines)]))
             THEN Strip(join(SubSeq(lines, 2, Len(lines) - 1)))
             ELSE t
    ELSE t

\* The tokens of a text that are not white space: white space between the
\* tokens of a JSON document or inside the brackets of a Python literal is
\* insignificant.
NoWs(t) == SelectSeq(t, LAMBDA tok : ~IsWs(tok))

Parsed(ok, isDict, data) == [ok |-> ok, isDict |-> isDict, data |-> data]
ParseFailed == Parsed(FALSE, FALSE, <<>>)

\* An object's member list in Python syntax is no JSON; one in JSON syntax is
\* a Python literal unless it uses null, which Python does not know.
HasNull(m) ==
    \E i \in 1..Len(m) :
        \/ m[i].v.t = "null"
        \/ \E j \in 1..Len(m[i].v.sub) : m[i].v.sub[j].v.t = "null"

JsonBody(tok) == tok.c = "body" /\ tok.syn = "json"
PyBody(tok) == tok.c = "body" /\ (tok.syn = "py" \/ ~HasNull(tok.m))

\* The document grammar shared by json.loads and ast.literal_eval: an empty
\* object, an object with a member list, or a literal that is no object.
Loads(t, syn) ==
    LET s == NoWs(t)
    IN  IF Len(s) = 2 /\ s[1].c = "{" /\ s[2].c = "}" THEN Parsed(TRUE, TRUE, <<>>)
        ELSE IF Len(s) = 3 /\ s[1].c = "{" /\ s[3].c = "}"
                /\ (IF syn = "json" THEN JsonBody(s[2]) ELSE PyBody(s[2]))
             THEN Parsed(TRUE, TRUE, s[2].m)
        ELSE IF Len(s) = 1 /\ s[1].c = "lit" THEN Parsed(TRUE, FALSE, <<>>)
        ELSE ParseFailed

json_loads(t) == Loads(t, "json")

\* ast.literal_eval takes blanks before the expression and empty lines around
\* it, but no indented line: a run of outer white space must be blanks
\* followed by line breaks.
BlanksThenBreaks(ws) ==
    \A i, j \in 1..Len(ws) : (ws[i].c = "nl" /\ ws[j].c = "sp") => j < i
OuterWsOk(t) ==
    LET lead == SubSeq(t, 1, Len(t) - Len(LStrip(t)))
        trail == SubSeq(t, Len(RStrip(t)) + 1, Len(t))
    IN  BlanksThenBreaks(lead) /\ BlanksThenBreaks(trail)
literal_eval(t) == IF OuterWsOk(t) THEN Loads(t, "py") ELSE ParseFailed

\* str.find("{") and str.rfind("}"); 0 stands for Python's -1.
Find(t, c) ==
    IF \E i \in 1..Len(t) : t[i].c = c
    THEN CHOOSE i \in 1..Len(t) : t[i].c = c /\ \A j \in 1..(i - 1) : t[j].c /= c
    ELSE 0
RFind(t, c) ==
    IF \E i \in 1..Len(t) : t[i].c = c
    THEN CHOOSE i \in 1..Len(t) : t[i].c = c /\ \A j \in (i + 1)..Len(t) : t[j].c /= c
    ELSE 0

\* Lines 236-239: the fragment from the first { to the last }.
BraceFragment(t) ==
    LET l == Find(t, "{")
        r == RFind(t, "}")
    IN  IF l /= 0 /\ r /= 0 /\ r > l THEN Some(SubSeq(t, l, r)) ELSE None

-----------------------------------------------------------------------------
(* _parse_response_text *)

PorSistemasDefault ==
    Dict(<<Item("cardiovascular", LList(<<>>)), Item("pulmonar", LList(<<>>)),
           Item("renal", LList(<<>>)), Item("delirium", LList(<<>>))>>)
MedicacoesDefault == Dict(EmptyBuckets)

\* The expected keys and the defaults each analysis type passes.
ExpectedGeneral ==
    <<"resumo_executivo", "por_sistemas", "estratificacao_geral",
      "recomendacoes", "medicacoes", "monitorizacao">>
DefaultsGeneral ==
    <<Item("por_sistemas", PorSistemasDefault), Item("medicacoes", MedicacoesDefault)>>

ExpectedMedications == <<"suspender", "manter", "ajustar", "profilaxias", "bridge">>
DefaultsMedications ==
    <<Item("suspender", Val(LList(<<>>))), Item("manter", Val(LList(<<>>))),
      Item("ajustar", Val(LList(<<>>))), Item("profilaxias", Val(LList(<<>>))),
      Item("bridge", Val(LList(<<>>)))>>

ExpectedScores ==
    <<"concordancia", "divergencia", "relevancia", "limitacoes", "risco_global",
      "pontos_atencao", "otimizacao_preop">>
DefaultsScores ==
    <<Item("concordancia", Val(LList(<<>>))), Item("divergencia", Val(LList(<<>>))),
      Item("relevancia", Val(LStr(""))), Item("limitacoes", Val(LList(<<>>))),
      Item("risco_global", Val(LStr(""))), Item("pontos_atencao", Val(LList(<<>>))),
      Item("otimizacao_preop", Val(LList(<<>>)))>>

\* The value a missing expected key is filled with (the if/elif chain that
\* each stage of _parse_response_text repeats).
FillValue(key) ==
    IF key = "por_sistemas" THEN PorSistemasDefault
    ELSE IF key = "medicacoes" THEN MedicacoesDefault
    ELSE IF key \in {"recomendacoes", "monitorizacao"} THEN Val(LList(<<>>))
    ELSE Val(LStr(""))

\* Mutant of Backfill: the loop over the expected keys is skipped.
BackfillSkipped(d, expected) == d

\* for key in expected_keys: if key not in d: d[key] = <fill value>
RECURSIVE Backfill(_, _)
Backfill(d, expected) ==
    IF expected = <<>> THEN d
    ELSE Backfill(SetDefault(d, Head(expected), FillValue(Head(expected))),
                  Tail(expected))

\* The structure line 292 builds when nothing else filled the base.
StandardStructure ==
    <<Item("resumo_executivo", Val(LStr(""))), Item("por_sistemas", PorSistemasDefault),
      Item("estratificacao_geral", Val(LStr(""))), Item("recomendacoes", Val(LList(<<>>))),
      Item("medicacoes", MedicacoesDefault), Item("monitorizacao", Val(LList(<<>>)))>>

\* A result dict: d holds its items other than _raw_text and _raw, which are
\* kept apart (hasRawText, rawText; hasRaw, raw) because their values are
\* texts; stage names the decoding stage that produced the result.
Result(d, hasRawText, rawText, stage) ==
    [d |-> d, hasRawText |-> hasRawText, rawText |-> rawText,
     hasRaw |-> FALSE, raw |-> <<>>, stage |-> stage]

\* Lines 218-232 (and their two copies): normalise and backfill a parsed dict.
Decoded(data, expected, stage) ==
    Result(Backfill(_normalize_top_keys(data), expected), FALSE, <<>>, stage)

\* Lines 277-294: the fallback built from the defaults.
Fallback(text, expected, defaults) ==
    LET base == Backfill(IF defaults.some THEN defaults.v ELSE <<>>, expected)
    IN  Result(IF base = <<>> THEN StandardStructure ELSE base, TRUE, text, "default")

\* expected_keys and defaults are optional arguments: [some, v].
Opt(v) == [some |-> TRUE, v |-> v]
NoArg == [some |-> FALSE, v |-> <<>>]

\* Mutant of _parse_response_text: the permissive literal parse is tried
\* first.
_parse_response_text_LiteralFirst(text, expected_keys, defaults) ==
    LET stripped == Strip(IF text.some THEN text.t ELSE <<>>)
        expected == IF expected_keys.some THEN expected_keys.v ELSE ExpectedGeneral
        t == StripFence(stripped)
        direct == json_loads(t)
        frag == BraceFragment(t)
        inner == IF frag.some THEN json_loads(frag.t) ELSE ParseFailed
        lit == literal_eval(t)
    IN  IF lit.ok /\ lit.isDict THEN Decoded(lit.data, expected, "literal")
        ELSE IF direct.ok /\ direct.isDict THEN Decoded(direct.data, expected, "json")
        ELSE IF inner.ok /\ inner.isDict THEN Decoded(inner.data, expected, "brace")
        ELSE Fallback(t, expected, defaults)

\* Lines 206-294.
_parse_response_text(text, expected_keys, defaults) ==
    LET stripped == Strip(IF text.some THEN text.t ELSE <<>>)
        expected == IF expected_keys.some THEN expected_keys.v ELSE ExpectedGeneral
        t == StripFence(stripped)
        direct == json_loads(t)
        frag == BraceFragment(t)
        inner == IF frag.some THEN json_loads(frag.t) ELSE ParseFailed
        lit == literal_eval(t)
    IN  IF direct.ok /\ direct.isDict THEN Decoded(direct.data, expected, "json")
        ELSE IF inner.ok /\ inner.isDict THEN Decoded(inner.data, expected, "brace")
        ELSE IF lit.ok /\ lit.isDict THEN Decoded(lit.data, expected, "literal")
        ELSE Fallback(t, expected, defaults)

-----------------------------------------------------------------------------
(* Inputs of _parse_response_text *)

MaxMembers == 2
MaxInner == 3

SeqsUpTo(S, n) == UNION {[1..k -> S] : k \in 0..n}

\* Items a model response may hold: canonical keys and aliases, values of
\* the contractual type and of other types, keys of every analysis type.
MemberPool ==
    { Item("recommendations", Val(LList(<<"x">>))),
      Item("recomendacoes", Val(LStr("x"))),
      Item("resumo", Val(LStr("s"))),
      Item("resumo_executivo", Val(LNum("5"))),
      Item("por_sistemas", Val(LList(<<"x">>))),
      Item("analise_sistemas", Dict(<<Item("renal", LList(<<"r">>))>>)),
      Item("medicacoes", Dict(<<Item("hold", LStr("x")), Item("outro", LStr("z"))>>)),
      Item("medications", Dict(<<Item("suspender", LList(<<"a">>)),
                                 Item("adjust", LNum("0"))>>)),
      Item("medicações", Dict(<<Item("continue", LNum("5")), Item("manter", LNull)>>)),
      Item("medicacoes", Val(LStr("nenhuma"))),
      Item("monitoring", Val(LNull)),
      Item("concordancia", Val(LStr("s"))),
      Item("relevancia", Val(LList(<<"x">>))),
      Item("suspender", Val(LList(<<"a">>))),
      Item("hold", Val(LStr("b"))),
      Item("extra", Val(LStr("e"))) }

DistinctKeys(m) == \A i, j \in 1..Len(m) : m[i].k = m[j].k => i = j

\* The member lists of at most MaxMembers items.
Members(n) == {m \in SeqsUpTo(MemberPool, n) : DistinctKeys(m)}

\* Every member list, as the whole text, fenced, and inside prose.
BodyTexts(n) ==
    UNION {{ <<Tok("{"), Body("json", m), Tok("}")>>,
             <<Tok("fence"), Tok("w"), Tok("nl"), Tok("{"), Body("json", m),
               Tok("}"), Tok("nl"), Tok("fence")>>,
             <<Tok("w"), Tok("sp"), Tok("{"), Body("json", m), Tok("}"), Tok("sp"),
               Tok("w")>>,
             <<Tok("{"), Body("py", m), Tok("}")>> } : m \in Members(n)}

SampleJson == Body("json", <<Item("resumo", Val(LStr("s")))>>)
SamplePy == Body("py", <<Item("recommendations", Val(LList(<<"x">>)))>>)

\* Every token sequence of at most MaxInner tokens, as it is, padded with
\* white space, fenced, fenced with an indented closing line, and behind an
\* opening fence that is never closed.
Alphabet ==
    {Tok("w"), Tok("sp"), Tok("nl"), Tok("{"), Tok("}"), Tok("lit"), SampleJson,
     SamplePy}
ShapeTexts(n) ==
    UNION {{ t,
             <<Tok("sp")>> \o t \o <<Tok("nl")>>,
             <<Tok("fence"), Tok("w"), Tok("nl")>> \o t \o <<Tok("nl"), Tok("fence")>>,
             <<Tok("fence"), Tok("nl")>> \o t \o <<Tok("nl"), Tok("sp"), Tok("fence")>>,
             <<Tok("fence"), Tok("nl")>> \o t } : t \in SeqsUpTo(Alphabet, n)}

ParseTexts(nMembers, nInner) ==
    {None} \cup {Some(t) : t \in BodyTexts(nMembers) \cup ShapeTexts(nInner)}

\* The arguments each caller passes: analyze_general, analyze_scores_interpretation,
\* the expected keys of analyze_medications, and a call with neither argument.
Kinds == {"general", "scores", "medications", "plain"}
ExpectedOf(kind) ==
    CASE kind = "general" -> Opt(ExpectedGeneral)
      [] kind = "scores" -> Opt(ExpectedScores)
      [] kind = "medications" -> Opt(ExpectedMedications)
      [] OTHER -> NoArg
DefaultsOf(kind) ==
    CASE kind = "general" -> Opt(DefaultsGeneral)
      [] kind = "scores" -> Opt(DefaultsScores)
      [] kind = "medications" -> Opt(DefaultsMedications)
      [] OTHER -> NoArg

-----------------------------------------------------------------------------
(* The cache key *)

\* A payload value, as Python holds it: [t, s, xs] with t its type ("str",
\* "int", "true", "false", "none", "list", "tuple", "dict"), s the characters
\* of a string or the digits of an int, xs the items [k, v] of a dict in
\* insertion order or the elements of a list or tuple (under k = "").
JStr(s) == [t |-> "str", s |-> s, xs |-> <<>>]
JInt(s) == [t |-> "int", s |-> s, xs |-> <<>>]
JTrue == [t |-> "true", s |-> <<>>, xs |-> <<>>]
JNone == [t |-> "none", s |-> <<>>, xs |-> <<>>]
JList(vs) == [t |-> "list", s |-> <<>>, xs |-> [i \in 1..Len(vs) |-> Item("", vs[i])]]
JTuple(vs) == [t |-> "tuple", s |-> <<>>, xs |-> [i \in 1..Len(vs) |-> Item("", vs[i])]]
JDict(items) == [t |-> "dict", s |-> <<>>, xs |-> items]

\* The characters of the dict keys and namespaces the model uses.
Chars(name) ==
    CASE name = "age" -> <<"a", "g", "e">>
      [] name = "asa" -> <<"a", "s", "a">>
      [] name = "idade" -> <<"i", "d", "a", "d", "e">>
      [] name = "patient" -> <<"p", "a", "t", "i", "e", "n", "t">>
      [] name = "scores" -> <<"s", "c", "o", "r", "e", "s">>
      [] name = "general" -> <<"g", "e", "n", "e", "r", "a", "l">>
      [] name = "medications" ->
            <<"m", "e", "d", "i", "c", "a", "t", "i", "o", "n", "s">>
      [] name = "scores_interpretation" ->
            <<"s", "c", "o", "r", "e", "s", "_", "i", "n", "t", "e", "r", "p", "r",
              "e", "t", "a", "t", "i", "o", "n">>
      [] OTHER -> <<>>

\* sort_keys=True: the keys in the order Python sorts them.
KeyOrder == <<"age", "asa", "idade", "patient", "scores">>
SortKeys(items) ==
    LET present == SelectSeq(KeyOrder, LAMBDA k : Has(items, k))
    IN  [i \in 1..Len(present) |-> Item(present[i], Get(items, present[i]))]

\* The JSON encoder escapes the quote and the backslash inside a string.
RECURSIVE Escape(_)
Escape(s) ==
    IF s = <<>> THEN <<>>
    ELSE (IF Head(s) \in {"\"", "\\"} THEN <<"\\", Head(s)>> ELSE <<Head(s)>>)
         \o Escape(Tail(s))

\* Mutant of DumpStr: a string is written without its quotes.
DumpStrBare(s) == s

\* A string in JSON: quoted and escaped.
DumpStr(s) == <<"\"">> \o Escape(s) \o <<"\"">>

\* The item separator ", " between the parts of a list or a dict.
RECURSIVE JoinSep(_)
JoinSep(parts) ==
    IF parts = <<>> THEN <<>>
    ELSE IF Len(parts) = 1 THEN parts[1]
    ELSE parts[1] \o <<",", " ">> \o JoinSep(Tail(parts))

\* json.dumps(v, sort_keys=True, ensure_ascii=False): the characters of the
\* document. A tuple is written as a list is.
RECURSIVE json_dumps(_)
json_dumps(v) ==
    CASE v.t = "str" -> DumpStr(v.s)
      [] v.t = "int" -> v.s
      [] v.t = "true" -> <<"t", "r", "u", "e">>
      [] v.t = "false" -> <<"f", "a", "l", "s", "e">>
      [] v.t = "none" -> <<"n", "u", "l", "l">>
      [] v.t \in {"list", "tuple"} ->
            <<"[">> \o JoinSep([i \in 1..Len(v.xs) |-> json_dumps(v.xs[i].v)])
            \o <<"]">>
      [] OTHER ->
            LET sorted == SortKeys(v.xs)
            IN  <<"{">>
                \o JoinSep([i \in 1..Len(sorted) |->
                               DumpStr(Chars(sorted[i].k)) \o <<":", " ">>
                               \o json_dumps(sorted[i].v)])
                \o <<"}">>

\* json.dumps(payload, sort_keys=True, ensure_ascii=False) of the payload dict.
json_dumps_sorted(payload) == json_dumps(JDict(payload))

\* sha256 of namespace + "::" + serialized, taken to be collision-free: the
\* digest is represented by the string it is computed from.
_hash_patient_payload(payload, namespace) ==
    Chars(namespace) \o <<":", ":">> \o json_dumps_sorted(payload)

Functions == {"general", "medications", "scores"}
\* Mutant of NamespaceOf: analyze_medications passes the namespace of
\* analyze_general.
NamespaceOfCopied(fn) ==
    CASE fn = "scores" -> "scores_interpretation"
      [] OTHER -> "general"

\* The namespace each analyze_* function passes (lines 352, 381, 419).
NamespaceOf(fn) ==
    CASE fn = "general" -> "general"
      [] fn = "medications" -> "medications"
      [] OTHER -> "scores_interpretation"

-----------------------------------------------------------------------------
(* _run_gemini *)

\* A response of model.generate_content: it raises (an error or a timeout)
\* or returns an object with a text attribute and candidates; a candidate is
\* malformed (walking it raises) or holds parts, each with an optional text.
Resp(kind, text, cands) == [kind |-> kind, text |-> text, cands |-> cands]
Cand(bad, parts) == [bad |-> bad, parts |-> parts]

TextsOf(parts) == SelectSeq(parts, LAMBDA pt : TextTruthy(pt))
JoinParts(parts) == join([i \in 1..Len(TextsOf(parts)) |-> TextsOf(parts)[i].t])

\* Mutant of WalkCandidates: the exception of a malformed candidate is not
\* caught per candidate; it ends the walk.
RECURSIVE WalkCandidatesUncaught(_, _)
WalkCandidatesUncaught(cands, text) ==
    IF cands = <<>> \/ Head(cands).bad THEN text
    ELSE IF TextsOf(Head(cands).parts) /= <<>>
         THEN Some(JoinParts(Head(cands).parts))
         ELSE WalkCandidatesUncaught(Tail(cands), text)

\* Lines 320-334: the first candidate that yields a text ends the walk; a
\* malformed candidate is skipped.
RECURSIVE WalkCandidates(_, _)
WalkCandidates(cands, text) ==
    IF cands = <<>> THEN text
    ELSE IF ~Head(cands).bad /\ TextsOf(Head(cands).parts) /= <<>>
         THEN Some(JoinParts(Head(cands).parts))
         ELSE WalkCandidates(Tail(cands), text)

\* Lines 314-334: the text of a response.
ExtractText(resp) ==
    IF TextTruthy(resp.text) THEN resp.text ELSE WalkCandidates(resp.cands, resp.text)

\* Mutant of Attempts: the configured number counts retries after a first try.
AttemptsPlusOne(retry) == IF retry > 0 THEN retry + 1 ELSE 1

\* attempts = max(1, cfg.retry_max_attempts)
Attempts(retry) == IF retry > 1 THEN retry ELSE 1

\* Mutant of LastText: "last_text = text", which keeps an empty string.
LastTextAssigned(text, last_text) == text

\* last_text = text or last_text
LastText(text, last_text) == IF TextTruthy(text) THEN text ELSE last_text

\* One iteration of the retry loop (lines 305-344) on the locals st of
\* _run_gemini, given the response of this attempt: the next position and the
\* locals. A text ends the loop with a return; an exception (an error, a
\* timeout) is caught by the except clause and the loop goes on; the last
\* iteration falls through to "return last_text". made counts the calls of
\* generate_content and outcome records what the last one gave.
Iteration(st, resp) ==
    LET text == ExtractText(resp)
        counted == [st EXCEPT !.attempt = @ + 1, !.made = @ + 1]
        after ==
            IF resp.kind /= "ok"
            THEN [counted EXCEPT !.last_error = TRUE, !.outcome = resp.kind]
            ELSE [counted EXCEPT !.last_text = LastText(text, @), !.outcome = "empty"]
    IN  IF resp.kind = "ok" /\ TextTruthy(text)
        THEN [pc |-> "got",
              st |-> [st EXCEPT !.made = @ + 1, !.text = text, !.outcome = "text"]]
        ELSE IF after.attempt < Attempts(after.retry)
             THEN [pc |-> "run", st |-> after]
             ELSE [pc |-> "got", st |-> [after EXCEPT !.text = after.last_text]]

-----------------------------------------------------------------------------
(* AIAnalysisCache and the analyze_* functions *)

\* AIAnalysisCache.get
AIAnalysisCache_get(c, key) == IF key \in DOMAIN c THEN Opt(c[key]) ELSE NoArg

\* Mutant of AIAnalysisCache_set: the entry is set in a copy of the store.
AIAnalysisCache_setCopy(c, key, value) == c

\* AIAnalysisCache.set
AIAnalysisCache_set(c, key, value) == (key :> value) @@ c

\* Mutant of DictTruthy: "if cached and cached.get('_raw'):", which takes an
\* entry stored without text for a miss.
DictTruthyRaw(r) == r.hasRaw /\ r.raw /= <<>>

\* Truthiness of a dict ("if cached:"): it has an item.
DictTruthy(r) == r.d /= <<>> \/ r.hasRawText \/ r.hasRaw

\* {**result, "_raw": text}
WithRaw(r, text) == [r EXCEPT !.hasRaw = TRUE, !.raw = text]

\* Lines 364-371: what analyze_general returns when there is no text.
FallbackGeneral ==
    <<Item("resumo_executivo",
           Val(LStr("IA indisponível. Verifique a GOOGLE_API_KEY e conectividade."))),
      Item("por_sistemas", PorSistemasDefault),
      Item("estratificacao_geral", Val(LStr(""))),
      Item("recomendacoes", Val(LList(<<>>))),
      Item("medicacoes", MedicacoesDefault),
      Item("monitorizacao", Val(LList(<<>>)))>>

\* Mutant of Degraded: analyze_medications returns the three buckets it builds
\* on the path with text.
DegradedBuckets(fn) ==
    CASE fn = "general" -> Result(FallbackGeneral, FALSE, <<>>, "degraded")
      [] fn = "medications" ->
            Result(SubSeq(DefaultsMedications, 1, 3), FALSE, <<>>, "degraded")
      [] OTHER -> Result(DefaultsScores, FALSE, <<>>, "degraded")

\* The structure each function returns when _run_gemini gave no text.
Degraded(fn) ==
    CASE fn = "general" -> Result(FallbackGeneral, FALSE, <<>>, "degraded")
      [] fn = "medications" -> Result(DefaultsMedications, FALSE, <<>>, "degraded")
      [] OTHER -> Result(DefaultsScores, FALSE, <<>>, "degraded")

\* Lines 394-413 of analyze_medications: json.loads, then ast.literal_eval,
\* of the text as received; only the three buckets are read from the dict.
meds_alias(k) ==
    CASE k = "hold" -> "suspender"
      [] k = "continue" -> "manter"
      [] k = "adjust" -> "ajustar"
      [] OTHER -> k

RECURSIVE MedsBuckets(_, _)
MedsBuckets(data, meds) ==
    IF data = <<>> THEN meds
    ELSE LET kk == meds_alias(Head(data).k)
             v == Head(data).v
             next == IF ~Has(meds, kk) THEN meds
                     ELSE IF v.t = "list" THEN Put(meds, kk, v)
                     ELSE IF Truthy(v) THEN Put(meds, kk, Val(LList(<<StrOf(v)>>)))
                     ELSE meds
         IN  MedsBuckets(Tail(data), next)

ParseMedications(text) ==
    LET js == json_loads(text)
        parsed_any == IF js.ok THEN js ELSE literal_eval(text)
        empty == <<Item("suspender", Val(LList(<<>>))), Item("manter", Val(LList(<<>>))),
                   Item("ajustar", Val(LList(<<>>)))>>
    IN  Result(IF parsed_any.ok /\ parsed_any.isDict
               THEN MedsBuckets(parsed_any.data, empty) ELSE empty,
               FALSE, <<>>, "medications")

\* The part of analyze_* after _run_gemini returned text: the result, the raw
\* text returned beside it, and the entry stored in the cache.
Outcome(result, raw) == [result |-> result, raw |-> raw, entry |-> WithRaw(result, raw)]
Analyze(fn, text) ==
    IF ~TextTruthy(text) THEN Outcome(Degraded(fn), <<>>)
    ELSE CASE fn = "general" ->
                Outcome(_parse_response_text(text, Opt(ExpectedGeneral),
                                             Opt(DefaultsGeneral)), text.t)
           [] fn = "medications" -> Outcome(ParseMedications(text.t), text.t)
           [] OTHER ->
                Outcome(_parse_response_text(text, Opt(ExpectedScores),
                                             Opt(DefaultsScores)), text.t)

-----------------------------------------------------------------------------
(* The state machine *)

MaxEntries == 2
MaxRetry == 2

Callers == {"a", "b"}
\* The callers of the sequential specification.
Sequential == {"a"}

\* The payloads: the same dict built in two insertion orders, and another one.
Payloads ==
    { <<Item("patient", JStr(<<"p", "1">>)), Item("scores", JInt(<<"1">>))>>,
      <<Item("scores", JInt(<<"1">>)), Item("patient", JStr(<<"p", "1">>))>>,
      <<Item("patient", JStr(<<"p", "2">>)), Item("scores", JInt(<<"1">>))>> }

\* A payload as a Python dict compares: by its items, whatever their order.
PayloadId(fn, payload) == <<fn, {<<payload[i].k, payload[i].v>> : i \in 1..Len(payload)}>>

RemoteBody ==
    Body("json", <<Item("resumo", Val(LStr("s"))), Item("hold", Val(LStr("b"))),
                   Item("concordancia", Val(LList(<<"c">>)))>>)
ProseText == <<Tok("sp"), Tok("w"), Tok("sp")>>
FencedText ==
    <<Tok("fence"), Tok("w"), Tok("nl"), Tok("{"), RemoteBody, Tok("}"), Tok("nl"),
      Tok("fence")>>

\* The responses of the remote service: an error, a timeout, no text at all,
\* an empty text with candidates that hold none, a text in the direct field,
\* and a text spread over the parts of a candidate behind a malformed one.
Responses ==
    { Resp("error", None, <<>>),
      Resp("timeout", None, <<>>),
      Resp("ok", None, <<>>),
      Resp("ok", Some(<<>>), <<Cand(TRUE, <<>>), Cand(FALSE, <<None, Some(<<>>)>>)>>),
      Resp("ok", Some(ProseText), <<>>),
      Resp("ok", Some(FencedText), <<>>),
      Resp("ok", None,
           <<Cand(TRUE, <<>>),
             Cand(FALSE, <<Some(<<Tok("fence"), Tok("w")>>), None,
                           Some(<<Tok("{"), RemoteBody, Tok("}")>>),
                           Some(<<Tok("fence")>>)>>),
             Cand(FALSE, <<Some(ProseText)>>)>>) }

NoKey == <<>>
NoResult == Result(<<>>, FALSE, <<>>, "none")
NoRet == [result |-> NoResult, raw |-> <<>>]
IdleCall ==
    [fn |-> "", payload |-> <<>>, key |-> NoKey, hit |-> FALSE, retry |-> 0,
     attempt |-> 0, made |-> 0, outcome |-> "", last_error |-> FALSE,
     last_text |-> None, text |-> None]

CountOf(f, x) == IF x \in DOMAIN f THEN f[x] ELSE 0

InitPipeline ==
    /\ cache = <<>>
    /\ pc = [c \in Callers |-> "idle"]
    /\ call = [c \in Callers |-> IdleCall]
    /\ ret = [c \in Callers |-> NoRet]
    /\ runs = <<>>
    /\ firstRet = <<>>

Init ==
    /\ InitPipeline
    /\ pIn = [text |-> None, kind |-> "plain"]
    /\ pOut = NoResult

\* analyze_* up to the return of a cached entry or, on a miss, to the start
\* of _run_gemini: create_gemini_model gives no model (return None) or the
\* retry loop begins.
Call(c, fn, payload, retry, available) ==
    LET key == _hash_patient_payload(payload, NamespaceOf(fn))
        cached == AIAnalysisCache_get(cache, key)
        st == [IdleCall EXCEPT !.fn = fn, !.payload = payload, !.key = key,
                               !.retry = retry]
        id == PayloadId(fn, payload)
    IN  /\ key \in DOMAIN cache \/ Cardinality(DOMAIN cache) < MaxEntries
        /\ IF cached.some /\ DictTruthy(cached.v)
           THEN /\ pc' = [pc EXCEPT ![c] = "done"]
                /\ call' = [call EXCEPT ![c] = [st EXCEPT !.hit = TRUE]]
                /\ ret' = [ret EXCEPT ![c] =
                              [result |-> cached.v,
                               raw |-> IF cached.v.hasRaw THEN cached.v.raw ELSE <<>>]]
                /\ UNCHANGED runs
           ELSE /\ pc' = [pc EXCEPT ![c] = IF available THEN "run" ELSE "got"]
                /\ call' = [call EXCEPT ![c] = st]
                /\ runs' = (id :> (CountOf(runs, id) + 1)) @@ runs
                /\ UNCHANGED ret
        /\ UNCHANGED <<cache, firstRet, pIn, pOut>>

\* An idle caller calls one of the analyze_* functions with a payload and a
\* configuration (the retry ceiling, and whether a model can be created).
Lookup(c) ==
    /\ pc[c] = "idle"
    /\ \E fn \in Functions, payload \in Payloads, retry \in 0..MaxRetry,
          available \in BOOLEAN : Call(c, fn, payload, retry, available)

\* One attempt of _run_gemini: model.generate_content and what the loop does
\* with its response.
Attempt(c, resp) ==
    /\ pc[c] = "run"
    /\ LET next == Iteration(call[c], resp)
       IN  /\ pc' = [pc EXCEPT ![c] = next.pc]
           /\ call' = [call EXCEPT ![c] = next.st]
    /\ UNCHANGED <<cache, ret, runs, firstRet, pIn, pOut>>

\* analyze_* after _run_gemini returned: build the result, store the entry,
\* return.
Finish(c) ==
    /\ pc[c] = "got"
    /\ LET out == Analyze(call[c].fn, call[c].text)
           id == PayloadId(call[c].fn, call[c].payload)
       IN  /\ cache' = AIAnalysisCache_set(cache, call[c].key, out.entry)
           /\ ret' = [ret EXCEPT ![c] = [result |-> out.result, raw |-> out.raw]]
           /\ firstRet' = (id :> [result |-> out.result, raw |-> out.raw]) @@ firstRet
    /\ pc' = [pc EXCEPT ![c] = "done"]
    /\ UNCHANGED <<call, runs, pIn, pOut>>

\* The caller takes the returned tuple; the locals of the call are gone.
Return(c) ==
    /\ pc[c] = "done"
    /\ pc' = [pc EXCEPT ![c] = "idle"]
    /\ call' = [call EXCEPT ![c] = IdleCall]
    /\ ret' = [ret EXCEPT ![c] = NoRet]
    /\ UNCHANGED <<cache, runs, firstRet, pIn, pOut>>

Next ==
    \E c \in Sequential :
        \/ Lookup(c)
        \/ \E resp \in Responses : Attempt(c, resp)
        \/ Finish(c)
        \/ Return(c)

Spec == Init /\ [][Next]_vars

-----------------------------------------------------------------------------
(* _parse_response_text on its own *)

InitParse ==
    /\ InitPipeline
    /\ pIn \in [text : ParseTexts(MaxMembers, MaxInner), kind : Kinds]
    /\ pOut = NoResult

Parse ==
    /\ pOut = NoResult
    /\ pOut' = _parse_response_text(pIn.text, ExpectedOf(pIn.kind), DefaultsOf(pIn.kind))
    /\ UNCHANGED <<cache, pc, call, ret, runs, firstRet, pIn>>

NextParse == Parse

SpecParse == InitParse /\ [][NextParse]_vars

-----------------------------------------------------------------------------
(* _hash_patient_payload on its own *)

\* Scalar values a field may be changed to.
Leaves ==
    { JStr(<<"7">>), JInt(<<"7">>), JStr(<<>>), JNone, JStr(<<"n", "u", "l", "l">>),
      JTrue, JStr(<<"a", "\"">>) }
FreshKeys == {"idade"}

\* The values that differ from v in a single field: v replaced by a scalar,
\* one element or one dict value altered (at any depth), one dict key
\* renamed, or a list turned into the tuple of its elements and back.
RECURSIVE Alterations(_)
Alterations(v) ==
    LET n == Len(v.xs)
        replaced == {w \in Leaves : w /= v}
        inside == UNION {{[v EXCEPT !.xs[i].v = w] : w \in Alterations(v.xs[i].v)} :
                           i \in 1..n}
        renamed == IF v.t = "dict"
                   THEN {[v EXCEPT !.xs[i].k = k] :
                            i \in 1..n, k \in FreshKeys \ Keys(v.xs)}
                   ELSE {}
        retyped == IF v.t = "list" THEN {[v EXCEPT !.t = "tuple"]}
                   ELSE IF v.t = "tuple" THEN {[v EXCEPT !.t = "list"]}
                   ELSE {}
    IN  replaced \cup inside \cup renamed \cup retyped

\* The payload dicts one field away from payload.
PayloadAlterations(payload) ==
    {w.xs : w \in {a \in Alterations(JDict(payload)) : a.t = "dict"}}

HashPayloads ==
    Payloads \cup
    { <<Item("scores", JList(<<JInt(<<"1">>), JStr(<<"1">>)>>)),
        Item("patient", JDict(<<Item("asa", JStr(<<"I", "I">>)),
                                Item("age", JInt(<<"7">>))>>))>>,
      <<Item("patient", JTuple(<<JNone, JDict(<<Item("age", JTrue)>>)>>))>> }

NoKeys == [key |-> NoKey, alteredKey |-> NoKey]

InitHash ==
    /\ InitPipeline
    /\ pIn \in UNION {[payload : {p}, altered : PayloadAlterations(p), fn : Functions] :
                         p \in HashPayloads}
    /\ pOut = NoKeys

Hash ==
    /\ pOut = NoKeys
    /\ pOut' = [key |-> _hash_patient_payload(pIn.payload, NamespaceOf(pIn.fn)),
                alteredKey |-> _hash_patient_payload(pIn.altered, NamespaceOf(pIn.fn))]
    /\ UNCHANGED <<cache, pc, call, ret, runs, firstRet, pIn>>

NextHash == Hash

SpecHash == InitHash /\ [][NextHash]_vars

-----------------------------------------------------------------------------
(* src/src/scores.py and src/src/risk_scores.py: the score functions *)

\* What a score function does with its arguments: it raises ValueError or
\* returns a ScoreOutput, of which result is kept. A float with one decimal
\* is held in tenths (risk_percent 0.4 is 4).
Raised(msg) == [raised |-> TRUE, error |-> msg, result |-> <<>>]
Returned(result) == [raised |-> FALSE, error |-> "", result |-> result]

\* int(bool(x))
IntBool(x) == IF x THEN 1 ELSE 0

\* sum(details.values())
RECURSIVE SumValues(_)
SumValues(d) == IF d = <<>> THEN 0 ELSE Head(d).v + SumValues(Tail(d))

\* Mutant of RcriClass: the branch of score 2 is missing.
RcriClassNoThree(score) ==
    IF score = 0 THEN [class |-> "Classe I", risk_percent |-> 4, risk_category |-> "Baixo"]
    ELSE IF score = 1
         THEN [class |-> "Classe II", risk_percent |-> 9,
               risk_category |-> "Intermediário"]
    ELSE [class |-> "Classe IV", risk_percent |-> 110, risk_category |-> "Alto"]

\* rcri_score, lines 230-246: class, risk_percent (in tenths) and category.
RcriClass(score) ==
    IF score = 0 THEN [class |-> "Classe I", risk_percent |-> 4, risk_category |-> "Baixo"]
    ELSE IF score = 1
         THEN [class |-> "Classe II", risk_percent |-> 9,
               risk_category |-> "Intermediário"]
    ELSE IF score = 2
         THEN [class |-> "Classe III", risk_percent |-> 70,
               risk_category |-> "Intermediário"]
    ELSE [class |-> "Classe IV", risk_percent |-> 110, risk_category |-> "Alto"]

RcriFactors ==
    <<"high_risk_surgery", "ischemic_heart_disease", "congestive_heart_failure",
      "cerebrovascular_disease", "insulin_treated_diabetes", "creatinine_gt_2mg_dl">>

\* rcri_score(**a): a gives each of the six factors a boolean.
rcri_score(a) ==
    LET details == [i \in 1..Len(RcriFactors) |->
                        Item(RcriFactors[i], IntBool(a[RcriFactors[i]]))]
        score == SumValues(details)
        c == RcriClass(score)
    IN  Returned([score |-> score, class |-> c.class, risk_percent |-> c.risk_percent,
                  risk_category |-> c.risk_category, details |-> details])

\* Mutant of AgePoints5180: the 51-80 weight is given whatever the >80 flag.
AgePoints5180Both(age_51_80, age_gt_80) == IF age_51_80 THEN 3 ELSE 0

\* details_points["age_51_80"] = 3 if (age_51_80 and not age_gt_80) else 0
AgePoints5180(age_51_80, age_gt_80) == IF age_51_80 /\ ~age_gt_80 THEN 3 ELSE 0

Max(x, y) == IF x > y THEN x ELSE y

\* Mutant of IncisionPoints: the weights of both sites are added.
IncisionPointsSummed(incision_abd_upper, incision_intrathoracic) ==
    (IF incision_intrathoracic THEN 24 ELSE 0) + (IF incision_abd_upper THEN 15 ELSE 0)

\* Lines 309-314: two ifs, each keeping the larger weight.
IncisionPoints(incision_abd_upper, incision_intrathoracic) ==
    LET p1 == IF incision_intrathoracic THEN Max(0, 24) ELSE 0
    IN  IF incision_abd_upper THEN Max(p1, 15) ELSE p1

\* Lines 317-322: if / elif.
DurationPoints(duration_2_to_3h, duration_gt_3h) ==
    IF duration_gt_3h THEN Max(0, 23)
    ELSE IF duration_2_to_3h THEN Max(0, 16)
    ELSE 0

\* Lines 329-337: category and probability (in tenths) of a total.
AriscatBand(total) ==
    IF total < 26 THEN [risk_category |-> "Baixo", probability_cpp_percent |-> 16]
    ELSE IF total < 45
         THEN [risk_category |-> "Intermediário", probability_cpp_percent |-> 133]
    ELSE [risk_category |-> "Alto", probability_cpp_percent |-> 421]

\* ariscat_score(**a): a gives each of the ten flags a boolean.
ariscat_score(a) ==
    LET details_points ==
            <<Item("age_51_80", AgePoints5180(a.age_51_80, a.age_gt_80)),
              Item("age_gt_80", IF a.age_gt_80 THEN 16 ELSE 0),
              Item("spo2_le_95", IF a.spo2_le_95 THEN 8 ELSE 0),
              Item("resp_infection_last_month",
                   IF a.resp_infection_last_month THEN 17 ELSE 0),
              Item("anemia_hb_le_10", IF a.anemia_hb_le_10 THEN 11 ELSE 0),
              Item("incision",
                   IncisionPoints(a.incision_abd_upper, a.incision_intrathoracic)),
              Item("duration", DurationPoints(a.duration_2_to_3h, a.duration_gt_3h)),
              Item("emergency_surgery", IF a.emergency_surgery THEN 8 ELSE 0)>>
        total == SumValues(details_points)
        band == AriscatBand(total)
    IN  Returned([score |-> total, risk_category |-> band.risk_category,
                  probability_cpp_percent |-> band.probability_cpp_percent,
                  details |-> details_points])

\* A string argument: core is its text in lower case and trimmed, case
\* tells how it is written ("lower", "upper", "mixed") and pad whether white
\* space surrounds it. A literal of the code is written as it stands.
Str(core, case, pad) == [core |-> core, case |-> case, pad |-> pad]
Lit(core) == Str(core, "lower", FALSE)
LitUpper(core) == Str(core, "upper", FALSE)
str_lower(s) == [s EXCEPT !.case = "lower"]
str_upper(s) == [s EXCEPT !.case = "upper"]
str_strip(s) == [s EXCEPT !.pad = FALSE]

\* Mutant of AkicsBand: the bands up to 5 and up to 8 are exchanged.
AkicsBandExchanged(points) ==
    IF points <= 20 THEN [categoria |-> "Muito baixo", prob |-> 20]
    ELSE IF points <= 50 THEN [categoria |-> "Moderado", prob |-> 180]
    ELSE IF points <= 80 THEN [categoria |-> "Baixo", prob |-> 80]
    ELSE IF points <= 130 THEN [categoria |-> "Alto", prob |-> 350]
    ELSE [categoria |-> "Muito alto", prob |-> 500]

\* Lines 457-471: category and probability (in tenths) of the points, which
\* are held in tenths too.
AkicsBand(points) ==
    IF points <= 20 THEN [categoria |-> "Muito baixo", prob |-> 20]
    ELSE IF points <= 50 THEN [categoria |-> "Baixo", prob |-> 80]
    ELSE IF points <= 80 THEN [categoria |-> "Moderado", prob |-> 180]
    ELSE IF points <= 130 THEN [categoria |-> "Alto", prob |-> 350]
    ELSE [categoria |-> "Muito alto", prob |-> 500]

\* Mutant of AkicsInvalid: the upper limits are not checked.
AkicsInvalidBelow(idade, creatinina_mg_dl) == idade < 0 \/ creatinina_mg_dl < 0

\* Lines 378-381: the range checks of akics_score; creatinine in tenths.
AkicsInvalid(idade, creatinina_mg_dl) ==
    \/ idade < 0 \/ idade > 120
    \/ creatinina_mg_dl < 0 \/ creatinina_mg_dl > 200

\* Lines 390-455: the components, in tenths of a point (idade / 10.0 is
\* idade tenths).
AkicsComponents(a, tipo) ==
    LET flag(name, on, pts) == Item(name, IF on THEN pts ELSE 0)
        creat == IF 12 <= a.creatinina_mg_dl /\ a.creatinina_mg_dl <= 20
                 THEN <<Item("creatinina_1.2_2.0", 20)>>
                 ELSE IF a.creatinina_mg_dl > 20
                      THEN <<Item("creatinina_>2.0", 50)>>
                 ELSE <<Item("creatinina_1.2_2.0", 0), Item("creatinina_>2.0", 0)>>
        given == a.nao_cardiaca_complexidade
        comp == str_lower(IF given.some /\ (given.v.core /= "" \/ given.v.pad) THEN given.v
                          ELSE Lit("baixa"))
        nao == IF tipo /= Lit("nao_cardiaca") THEN <<>>
               ELSE IF comp = Lit("alta")
                    THEN <<Item("nao_cardiaca_complexidade_alta", 10)>>
               ELSE IF comp = Lit("media")
                    THEN <<Item("nao_cardiaca_complexidade_media", 5)>>
               ELSE <<Item("nao_cardiaca_complexidade_baixa", 0)>>
    IN  <<Item("idade/10", a.idade),
          flag("sexo_feminino", a.sexo_feminino, 10),
          flag("insuficiencia_cardiaca", a.insuficiencia_cardiaca, 10),
          flag("hipertensao", a.hipertensao, 10),
          flag("emergencia", a.emergencia, 20),
          flag("cirurgia_valvar", tipo = Lit("valvar"), 10),
          flag("cirurgia_combinada", tipo = Lit("combinada"), 20)>>
        \o creat \o nao

\* Mutant of AkicsPoints: an emergency adds 1.0 to the points (and 2.0 to the
\* components).
AkicsPointsEmergencyOne(a, tipo) ==
    LET given == a.nao_cardiaca_complexidade
        comp == str_lower(IF given.some /\ (given.v.core /= "" \/ given.v.pad) THEN given.v
                          ELSE Lit("baixa"))
    IN  a.idade
        + (IF a.sexo_feminino THEN 10 ELSE 0)
        + (IF a.insuficiencia_cardiaca THEN 10 ELSE 0)
        + (IF a.hipertensao THEN 10 ELSE 0)
        + (IF a.emergencia THEN 10 ELSE 0)
        + (IF tipo = Lit("valvar") THEN 10 ELSE 0)
        + (IF tipo = Lit("combinada") THEN 20 ELSE 0)
        + (IF 12 <= a.creatinina_mg_dl /\ a.creatinina_mg_dl <= 20 THEN 20
           ELSE IF a.creatinina_mg_dl > 20 THEN 50 ELSE 0)
        + (IF tipo /= Lit("nao_cardiaca") THEN 0
           ELSE IF comp = Lit("alta") THEN 10
           ELSE IF comp = Lit("media") THEN 5 ELSE 0)

\* Lines 390-455: the points, which the code adds up beside the components,
\* in tenths of a point.
AkicsPoints(a, tipo) ==
    LET given == a.nao_cardiaca_complexidade
        comp == str_lower(IF given.some /\ (given.v.core /= "" \/ given.v.pad) THEN given.v
                          ELSE Lit("baixa"))
    IN  a.idade
        + (IF a.sexo_feminino THEN 10 ELSE 0)
        + (IF a.insuficiencia_cardiaca THEN 10 ELSE 0)
        + (IF a.hipertensao THEN 10 ELSE 0)
        + (IF a.emergencia THEN 20 ELSE 0)
        + (IF tipo = Lit("valvar") THEN 10 ELSE 0)
        + (IF tipo = Lit("combinada") THEN 20 ELSE 0)
        + (IF 12 <= a.creatinina_mg_dl /\ a.creatinina_mg_dl <= 20 THEN 20
           ELSE IF a.creatinina_mg_dl > 20 THEN 50 ELSE 0)
        + (IF tipo /= Lit("nao_cardiaca") THEN 0
           ELSE IF comp = Lit("alta") THEN 10
           ELSE IF comp = Lit("media") THEN 5 ELSE 0)

\* akics_score(**a)
akics_score(a) ==
    LET tipo == str_strip(str_lower(a.tipo_cirurgia))
        given == a.nao_cardiaca_complexidade
        components == AkicsComponents(a, tipo)
        points == AkicsPoints(a, tipo)
        band == AkicsBand(points)
    IN  IF AkicsInvalid(a.idade, a.creatinina_mg_dl)
        THEN Raised(IF a.idade < 0 \/ a.idade > 120 THEN "Idade inválida"
                    ELSE "Creatinina fora de faixa plausível")
        ELSE IF tipo \notin {Lit("coronariana"), Lit("valvar"), Lit("combinada"),
                             Lit("nao_cardiaca")}
             THEN Raised("tipo_cirurgia inválido")
        ELSE IF /\ tipo = Lit("nao_cardiaca") /\ given.some
                /\ str_lower(given.v) \notin {Lit("baixa"), Lit("media"), Lit("alta")}
             THEN Raised("nao_cardiaca_complexidade inválida")
        ELSE Returned([pontuacao_total |-> points, categoria_risco |-> band.categoria,
                       probabilidade_percentual |-> band.prob,
                       detalhes |-> components])

\* grp_map of pre_deliric_score.
grp_map ==
    <<Item(Lit("clínico"), 0), Item(Lit("clinico"), 0), Item(Lit("cirúrgico"), 1),
      Item(Lit("cirurgico"), 1), Item(Lit("trauma"), 2), Item(Lit("neuro"), 5),
      Item(Lit("neurocirurgia"), 5)>>

\* Mutant of PreDeliricInvalid: the limits of pH are excluded (pH <= 6.8 and
\* pH >= 7.8 are rejected).
PreDeliricInvalidStrict(idade, apache_ii, ph, ureia_mg_dl, creatinina_mg_dl) ==
    \/ idade < 0 \/ idade > 120
    \/ ~(0 <= apache_ii /\ apache_ii <= 710)
    \/ ph <= 680 \/ ph >= 780
    \/ ureia_mg_dl < 0 \/ creatinina_mg_dl <= 0

\* Lines 520-527: the range checks of pre_deliric_score; APACHE-II, urea and
\* creatinine in tenths, pH in hundredths.
PreDeliricInvalid(idade, apache_ii, ph, ureia_mg_dl, creatinina_mg_dl) ==
    \/ idade < 0 \/ idade > 120
    \/ ~(0 <= apache_ii /\ apache_ii <= 710)
    \/ ph < 680 \/ ph > 780
    \/ ureia_mg_dl < 0 \/ creatinina_mg_dl <= 0

\* round(x, 2) of the quotient num / den (den > 0), in hundredths.
Round2(num, den) ==
    LET q == (100 * num) \div den
        r == (100 * num) % den
    IN  IF 2 * r > den \/ (2 * r = den /\ q % 2 = 1) THEN q + 1 ELSE q

\* Lines 530-580: the details of pre_deliric_score.
PreDeliricDetails(a, grp) ==
    LET age_pts == IF a.idade >= 80 THEN 6 ELSE IF a.idade >= 70 THEN 5
                   ELSE IF a.idade >= 60 THEN 2 ELSE IF a.idade >= 50 THEN 1 ELSE 0
        apache_pts == IF a.apache_ii >= 200 THEN 5 ELSE IF a.apache_ii >= 150 THEN 3
                      ELSE IF a.apache_ii >= 100 THEN 2 ELSE 0
        ratio_pts == IF a.ureia_mg_dl >= 10 * a.creatinina_mg_dl THEN 2
                     ELSE IF a.ureia_mg_dl >= 5 * a.creatinina_mg_dl THEN 1 ELSE 0
    IN  <<Item("idade_pts", age_pts), Item("apache_pts", apache_pts),
          Item("grupo_admissao_pts", Get(grp_map, grp)),
          Item("coma_pts", IF a.coma THEN 4 ELSE 0),
          Item("infeccao_pts", IF a.infeccao THEN 1 ELSE 0),
          Item("acidose_pts", IF a.ph < 735 THEN 2 ELSE 0),
          Item("sedativos_pts", IF a.sedativos THEN 1 ELSE 0),
          Item("morfina_pts", IF a.morfina THEN 2 ELSE 0),
          Item("ureia_creatinina_ratio", Round2(a.ureia_mg_dl, a.creatinina_mg_dl)),
          Item("ratio_pts", ratio_pts)>>

\* k.endswith("_pts")
EndsWithPts(k) == k /= "ureia_creatinina_ratio"

\* Lines 584-595: category and probability (in tenths) of a total.
PreDeliricBand(total) ==
    IF total <= 4 THEN [categoria |-> "Muito baixo", prob |-> 50]
    ELSE IF total <= 9 THEN [categoria |-> "Baixo", prob |-> 150]
    ELSE IF total <= 15 THEN [categoria |-> "Moderado", prob |-> 350]
    ELSE [categoria |-> "Alto", prob |-> 500]

\* pre_deliric_score(**a)
pre_deliric_score(a) ==
    LET grp == str_lower(str_strip(a.grupo_admissao))
        details == PreDeliricDetails(a, grp)
        total == SumValues(SelectSeq(details, LAMBDA it : EndsWithPts(it.k)))
        band == PreDeliricBand(total)
    IN  IF PreDeliricInvalid(a.idade, a.apache_ii, a.ph, a.ureia_mg_dl,
                             a.creatinina_mg_dl)
        THEN Raised(IF a.idade < 0 \/ a.idade > 120 THEN "Idade inválida"
                    ELSE IF ~(0 <= a.apache_ii /\ a.apache_ii <= 710)
                         THEN "APACHE II fora de faixa (0-71)"
                    ELSE IF a.ph < 680 \/ a.ph > 780
                         THEN "pH fora de faixa plausível (6.8-7.8)"
                    ELSE "Ureia/Creatinina inválidas")
        ELSE IF ~Has(grp_map, grp) THEN Raised("grupo_admissao inválido")
        ELSE Returned([pontuacao_total |-> total, categoria_risco |-> band.categoria,
                       probabilidade_percentual |-> band.prob, detalhes |-> details])

\* ASA_BASE_RISK; ASA_DESCRIPTIONS has the same keys.
ASA_BASE_RISK ==
    <<Item(LitUpper("i"), "Muito baixo"), Item(LitUpper("ii"), "Baixo"),
      Item(LitUpper("iii"), "Intermediário"), Item(LitUpper("iv"), "Alto"),
      Item(LitUpper("v"), "Muito alto"), Item(LitUpper("vi"), "N/A")>>

\* Mutant of RiskAnnotation: class VI is annotated like the others.
RiskAnnotationAll(asa_class, emergency_modifier) ==
    IF emergency_modifier THEN " (aumentado por emergência)" ELSE ""

\* Lines 44-47: what is appended to the base risk.
RiskAnnotation(asa_class, emergency_modifier) ==
    IF emergency_modifier /\ asa_class /= LitUpper("vi")
    THEN " (aumentado por emergência)" ELSE ""

\* classify_asa(asa_class, emergency_modifier); label and risk are kept as
\* the parts they are concatenated from.
classify_asa(asa_class0, emergency_modifier) ==
    LET asa_class == str_upper(str_strip(asa_class0))
    IN  IF ~Has(ASA_BASE_RISK, asa_class)
        THEN Raised("ASA inválido. Use I, II, III, IV, V ou VI.")
        ELSE Returned([asa |-> asa_class,
                       label |-> <<asa_class, IF emergency_modifier THEN "-E" ELSE "">>,
                       risk |-> <<Get(ASA_BASE_RISK, asa_class),
                                  RiskAnnotation(asa_class, emergency_modifier)>>,
                       emergency |-> emergency_modifier])

\* src/src/risk_scores.py, ARISCAT_WEIGHTS, in the order of the dict.
ARISCAT_WEIGHTS ==
    <<Item("age_51_80", 3), Item("age_gt_80", 16), Item("low_spo2", 24),
      Item("very_low_spo2", 27), Item("resp_infection_last_month", 17),
      Item("anemia", 11), Item("surgery_upper_abdominal", 15),
      Item("surgery_intrathoracic", 24), Item("duration_2_to_3h", 16),
      Item("duration_gt_3h", 23), Item("emergency_surgery", 8)>>

\* src/src/risk_scores.py, calculate_ariscat(**factors): a gives each flag a
\* boolean (a flag that is not passed counts as False).
calculate_ariscat(a) ==
    LET details == [i \in 1..Len(ARISCAT_WEIGHTS) |->
                        Item(ARISCAT_WEIGHTS[i].k,
                             IF a[ARISCAT_WEIGHTS[i].k] THEN ARISCAT_WEIGHTS[i].v ELSE 0)]
        score == SumValues(details)
        risk == IF score < 26 THEN "Baixo"
                ELSE IF score < 45 THEN "Intermediário"
                ELSE "Alto"
    IN  Returned([score |-> score, risk_category |-> risk, details |-> details])

\* The arguments of the score functions: every combination of the flags;
\* for the numbers, values on, next to and far from each limit; for the
\* strings, literals as the code writes them, in another case, padded, and
\* unknown ones.
RcriInputs ==
    [high_risk_surgery : BOOLEAN, ischemic_heart_disease : BOOLEAN,
     congestive_heart_failure : BOOLEAN, cerebrovascular_disease : BOOLEAN,
     insulin_treated_diabetes : BOOLEAN, creatinine_gt_2mg_dl : BOOLEAN]
AriscatInputs ==
    [age_51_80 : BOOLEAN, age_gt_80 : BOOLEAN, spo2_le_95 : BOOLEAN,
     resp_infection_last_month : BOOLEAN, anemia_hb_le_10 : BOOLEAN,
     incision_abd_upper : BOOLEAN, incision_intrathoracic : BOOLEAN,
     duration_2_to_3h : BOOLEAN, duration_gt_3h : BOOLEAN, emergency_surgery : BOOLEAN]
AkicsInputs ==
    [idade : {-1, 0, 65, 120, 121, 150}, sexo_feminino : BOOLEAN,
     insuficiencia_cardiaca : BOOLEAN, hipertensao : BOOLEAN, emergencia : BOOLEAN,
     tipo_cirurgia : {Lit("valvar"), Lit("combinada"), Str("coronariana", "mixed", TRUE),
                      Lit("nao_cardiaca"), Lit("outra")},
     creatinina_mg_dl : {-1, 0, 11, 12, 20, 21, 200, 201},
     nao_cardiaca_complexidade :
         {NoArg, Opt(Lit("alta")), Opt(LitUpper("media")),
          Opt(Str("media", "lower", TRUE)), Opt(Lit(""))}]
PreDeliricInputs ==
    [idade : {-1, 0, 65, 120, 121}, apache_ii : {-1, 0, 150, 710, 711},
     grupo_admissao : {Lit("clinico"), Str("trauma", "mixed", TRUE), Lit("neuro"),
                       Lit("outro")},
     coma : BOOLEAN, infeccao : BOOLEAN, ph : {670, 680, 734, 735, 780, 790},
     sedativos : BOOLEAN, morfina : BOOLEAN, ureia_mg_dl : {-1, 0, 400},
     creatinina_mg_dl : {-1, 0, 40, 80}]
CalculateAriscatInputs ==
    [age_51_80 : BOOLEAN, age_gt_80 : BOOLEAN, low_spo2 : BOOLEAN,
     very_low_spo2 : BOOLEAN, resp_infection_last_month : BOOLEAN, anemia : BOOLEAN,
     surgery_upper_abdominal : BOOLEAN, surgery_intrathoracic : BOOLEAN,
     duration_2_to_3h : BOOLEAN, duration_gt_3h : BOOLEAN, emergency_surgery : BOOLEAN]
AsaInputs ==
    [asa_class : {Str(core, case, pad) :
                      core \in {"i", "ii", "iii", "iv", "v", "vi", "vii", ""},
                      case \in {"lower", "upper", "mixed"}, pad \in BOOLEAN},
     emergency_modifier : BOOLEAN]

NoScore == [raised |-> FALSE, error |-> "not called", result |-> <<>>]

InitScores ==
    /\ InitPipeline
    /\ \/ \E a \in RcriInputs : pIn = [fn |-> "rcri_score", a |-> a]
       \/ \E a \in AriscatInputs : pIn = [fn |-> "ariscat_score", a |-> a]
       \/ \E a \in AkicsInputs : pIn = [fn |-> "akics_score", a |-> a]
       \/ \E a \in PreDeliricInputs : pIn = [fn |-> "pre_deliric_score", a |-> a]
       \/ \E a \in AsaInputs : pIn = [fn |-> "classify_asa", a |-> a]
       \/ \E a \in CalculateAriscatInputs : pIn = [fn |-> "calculate_ariscat", a |-> a]
    /\ pOut = NoScore

\* A call of the score function fn: apply gives its outcome.
Score(fn, outcome) ==
    /\ pOut = NoScore
    /\ pIn.fn = fn
    /\ pOut' = outcome
    /\ UNCHANGED <<cache, pc, call, ret, runs, firstRet, pIn>>

Rcri == Score("rcri_score", rcri_score(pIn.a))
Ariscat == Score("ariscat_score", ariscat_score(pIn.a))
Akics == Score("akics_score", akics_score(pIn.a))
PreDeliric == Score("pre_deliric_score", pre_deliric_score(pIn.a))
ClassifyAsa ==
    Score("classify_asa", classify_asa(pIn.a.asa_class, pIn.a.emergency_modifier))

CalculateAriscat == Score("calculate_ariscat", calculate_ariscat(pIn.a))

NextScores == Rcri \/ Ariscat \/ Akics \/ PreDeliric \/ ClassifyAsa \/ CalculateAriscat

SpecScores == InitScores /\ [][NextScores]_vars

-----------------------------------------------------------------------------
(* Properties *)

Range(q) == {q[i] : i \in 1..Len(q)}

\* The expected keys of a call of _parse_response_text (the general list when
\* none is passed) and of each analyze_* function.
ExpectedKeys(kind) ==
    CASE kind = "scores" -> Range(ExpectedScores)
      [] kind = "medications" -> Range(ExpectedMedications)
      [] OTHER -> Range(ExpectedGeneral)

\* The type the schema gives each expected key.
ContractType(key) ==
    IF key \in {"por_sistemas", "medicacoes"} THEN "dict"
    ELSE IF key \in {"recomendacoes", "monitorizacao", "concordancia", "divergencia",
                     "limitacoes", "pontos_atencao", "otimizacao_preop", "suspender",
                     "manter", "ajustar", "profilaxias", "bridge"} THEN "list"
    ELSE "str"

Parsed_ == pOut /= NoResult

\* C1: whatever the raw text (None, empty, prose, fenced, partially valid)
\* and whichever expected-key list is passed, the mapping returned by
\* _parse_response_text contains every expected key.
C1_EveryExpectedKeyPresent ==
    Parsed_ => \A key \in ExpectedKeys(pIn.kind) : Has(pOut.d, key)

\* C1 witness: a partially valid structure inside prose was decoded from its
\* braces for the score-interpretation keys, none of which it supplied.
C1_Witness ==
    /\ pOut.stage = "brace"
    /\ pIn.kind = "scores"
    /\ pIn.text.some /\ \E i \in 1..Len(pIn.text.t) :
           /\ pIn.text.t[i].c = "body"
           /\ Keys(pIn.text.t[i].m) \cap Range(ExpectedScores) = {}
    /\ \A key \in Range(ExpectedScores) : Has(pOut.d, key)

\* C2 (as claimed): in every mapping _parse_response_text returns to
\* analyze_general or analyze_scores_interpretation, each expected key holds a
\* value of its contractual type, whatever type the model supplied.
C2_ExpectedKeysTyped ==
    (Parsed_ /\ pIn.kind \in {"general", "scores"}) =>
        \A key \in ExpectedKeys(pIn.kind) :
            Has(pOut.d, key) /\ Get(pOut.d, key).t = ContractType(key)

\* C7 (as claimed): when no decoding stage yields a mapping, the result holds
\* every expected key at its typed default and the raw text exactly as
\* received under _raw_text.
C7_DefaultKeepsTextAsReceived ==
    (Parsed_ /\ pOut.stage = "default" /\ pIn.kind \in {"general", "scores"}) =>
        /\ \A key \in ExpectedKeys(pIn.kind) :
               /\ Has(pOut.d, key)
               /\ Get(pOut.d, key).t = ContractType(key)
               /\ ~Truthy(Get(pOut.d, key))
                  \/ Get(pOut.d, key) \in {PorSistemasDefault, MedicacoesDefault}
        /\ pOut.hasRawText
        /\ pOut.rawText = (IF pIn.text.some THEN pIn.text.t ELSE <<>>)

\* C10 (as claimed): in every mapping _parse_response_text returns, the
\* medicacoes sub-object has exactly the keys suspender, manter and ajustar,
\* each holding a list.
C10_MedicationBucketsExact ==
    (Parsed_ /\ Has(pOut.d, "medicacoes")) =>
        LET meds == Get(pOut.d, "medicacoes")
        IN  /\ meds.t = "dict"
            /\ Keys(meds.sub) = {"suspender", "manter", "ajustar"}
            /\ \A i \in 1..Len(meds.sub) : meds.sub[i].v.t = "list"

\* A finished call that found no entry and went through _run_gemini.
Computed(c) == pc[c] = "done" /\ ~call[c].hit
\* A finished call that returned a cached entry.
Served(c) == pc[c] = "done" /\ call[c].hit

\* C3 (as claimed): whatever the remote outcome, the structure returned by
\* analyze_medications contains suspender, manter, ajustar, profilaxias and
\* bridge, each holding a list.
C3_MedicationsFiveKeys ==
    \A c \in Callers :
        (pc[c] = "done" /\ call[c].fn = "medications") =>
            \A key \in Range(ExpectedMedications) :
                Has(ret[c].result.d, key) /\ Get(ret[c].result.d, key).t = "list"

\* C4: in a sequence of calls, _run_gemini runs at most once per function and
\* distinct payload; it runs only while the cache holds no entry for the
\* payload's hash, and a call that finds an entry returns that entry and
\* makes no remote call.
C4_AtMostOneRunPerPayload ==
    /\ \A id \in DOMAIN runs : runs[id] <= 1
    /\ \A c \in Callers :
        /\ pc[c] \in {"run", "got"} => call[c].key \notin DOMAIN cache
        /\ Served(c) =>
              /\ call[c].made = 0
              /\ call[c].key \in DOMAIN cache
              /\ ret[c].result = cache[call[c].key]
              /\ runs[PayloadId(call[c].fn, call[c].payload)] = 1

\* C4 witness: a call was served from the entry stored by an earlier call
\* whose payload was the same dict built in another insertion order.
C4_Witness ==
    \E c \in Callers :
        /\ Served(c)
        /\ call[c].payload =
               <<Item("scores", JInt(<<"1">>)), Item("patient", JStr(<<"p", "1">>))>>
        /\ call[c].key =
               _hash_patient_payload(
                   <<Item("patient", JStr(<<"p", "1">>)), Item("scores", JInt(<<"1">>))>>,
                   NamespaceOf(call[c].fn))
        /\ ret[c].result.raw = FencedText

\* The items of a result dict, the two raw-text items included.
SameDict(r1, r2) ==
    /\ Range(r1.d) = Range(r2.d)
    /\ r1.hasRawText = r2.hasRawText /\ r1.rawText = r2.rawText
    /\ r1.hasRaw = r2.hasRaw /\ r1.raw = r2.raw

\* C5 (as claimed): the result a cached call returns has the same keys and
\* values as the result the first, uncached call with that payload returned.
C5_CachedEqualsFirst ==
    \A c \in Callers :
        Served(c) =>
            LET id == PayloadId(call[c].fn, call[c].payload)
            IN  id \in DOMAIN firstRet
                /\ SameDict(ret[c].result, firstRet[id].result)
                /\ ret[c].raw = firstRet[id].raw

\* C6: when the model cannot be created, or every attempt raises or yields
\* no text, each analyze_* function returns (it does not raise) a structure
\* with every expected key of its type, of the key's type and empty but for
\* the notice of analyze_general, paired with an empty raw text.
C6_DegradedReturnsDefaults ==
    \A c \in Callers :
        /\ pc[c] \in {"idle", "run", "got", "done"}
        /\ (Computed(c) /\ ~TextTruthy(call[c].text)) =>
              /\ ret[c].raw = <<>>
              /\ \A key \in ExpectedKeys(call[c].fn) :
                    /\ Has(ret[c].result.d, key)
                    /\ Get(ret[c].result.d, key).t = ContractType(key)
                    /\ \/ ~Truthy(Get(ret[c].result.d, key))
                       \/ Get(ret[c].result.d, key) \in
                              {PorSistemasDefault, MedicacoesDefault}
                       \/ call[c].fn = "general" /\ key = "resumo_executivo"

\* C6 witness: analyze_medications returned after two attempts that both
\* raised, the last one a timeout.
C6_Witness ==
    \E c \in Callers :
        /\ Computed(c)
        /\ call[c].fn = "medications"
        /\ call[c].made = 2 /\ call[c].last_error /\ call[c].outcome = "timeout"
        /\ ~call[c].text.some
        /\ Has(ret[c].result.d, "bridge")

\* C8: one invocation of _run_gemini makes its generation calls one at a
\* time and never more than the retry ceiling; an attempt that raises (an
\* error or a timeout) or yields no text uses up exactly one turn of the
\* loop, and no attempt follows the one that yielded text.
C8_BoundedSequentialAttempts ==
    [][\A c \in Callers :
          /\ call'[c].made <= (IF call'[c].retry < 1 THEN 1 ELSE call'[c].retry)
          /\ (call'[c].made /= call[c].made /\ pc'[c] /= "idle") =>
                /\ pc[c] = "run"
                /\ call[c].outcome /= "text"
                /\ call'[c].made = call[c].made + 1
                /\ call'[c].outcome \in {"error", "timeout", "empty"} =>
                      call'[c].attempt = call[c].attempt + 1
                /\ call'[c].outcome = "text" => pc'[c] = "got"
          /\ pc'[c] = "run" => call'[c].made = call'[c].attempt
      ]_vars

\* C8 witness: with a ceiling of two, a first attempt timed out and the
\* second yielded the text that _run_gemini returned.
C8_Witness ==
    \E c \in Callers :
        /\ pc[c] = "got"
        /\ call[c].retry = 2 /\ call[c].made = 2
        /\ call[c].last_error /\ call[c].outcome = "text"
        /\ TextTruthy(call[c].text)

\* C9: _run_gemini never raises; it returns a non-empty text when an attempt
\* yielded one, and None (never an empty string) when the model could not be
\* created or no attempt yielded text.
C9_TextOrNone ==
    \A c \in Callers :
        /\ pc[c] \in {"idle", "run", "got", "done"}
        /\ pc[c] = "got" =>
              /\ call[c].outcome = "text" => TextTruthy(call[c].text)
              /\ call[c].outcome /= "text" => call[c].text = None
              /\ call[c].made = 0 => call[c].text = None

\* C9 witness: every attempt of a run with two attempts came back without
\* text, the last one with an empty string, and _run_gemini returned None.
C9_Witness ==
    \E c \in Callers :
        /\ pc[c] = "got"
        /\ call[c].made = 2 /\ call[c].outcome = "empty" /\ ~call[c].last_error
        /\ call[c].text = None

-----------------------------------------------------------------------------
(* Backfill, aliases and the audit key *)

\* The mapping a decoding stage of _parse_response_text decoded from the
\* text, in the order the stages are tried.
DecodedMapping(text) ==
    LET t == StripFence(Strip(IF text.some THEN text.t ELSE <<>>))
        direct == json_loads(t)
        frag == BraceFragment(t)
        inner == IF frag.some THEN json_loads(frag.t) ELSE ParseFailed
    IN  IF direct.ok /\ direct.isDict THEN direct.data
        ELSE IF inner.ok /\ inner.isDict THEN inner.data
        ELSE literal_eval(t).data

\* The default the schema gives a key: the canonical sub-schema for a nested
\* mapping, an empty list for a list-valued key, an empty string otherwise.
TypedDefault(key) ==
    IF key = "por_sistemas" THEN PorSistemasDefault
    ELSE IF key = "medicacoes" THEN MedicacoesDefault
    ELSE IF ContractType(key) = "list" THEN Val(LList(<<>>))
    ELSE Val(LStr(""))

\* The canonical names of the keys the decoded mapping supplied.
Supplied(text) == {key_aliases(k) : k \in Keys(DecodedMapping(text))}

\* C11 (as claimed): when a decoding stage succeeds, every expected key the
\* parsed mapping lacks after renaming is present in the result with its
\* typed default: an empty list, an empty string, or the canonical
\* sub-schema with empty lists for por_sistemas and medicacoes.
C11_BackfillTypedDefault ==
    (Parsed_ /\ pOut.stage /= "default") =>
        \A key \in ExpectedKeys(pIn.kind) :
            key \notin Supplied(pIn.text) =>
                Has(pOut.d, key) /\ Get(pOut.d, key) = TypedDefault(key)

\* A key of the alias table of _normalize_top_keys: all of them, canonical
\* names included, map into the six general keys.
IsKnownAlias(k) == key_aliases(k) \in Range(ExpectedGeneral)

\* C12 (as claimed): on a successful parse every top-level key that is a
\* known alias appears under its canonical name with the value it came with.
C12_AliasValuePreserved ==
    (Parsed_ /\ pOut.stage /= "default") =>
        LET data == DecodedMapping(pIn.text)
        IN  \A i \in 1..Len(data) :
                IsKnownAlias(data[i].k) =>
                    /\ Has(pOut.d, key_aliases(data[i].k))
                    /\ Get(pOut.d, key_aliases(data[i].k)) = data[i].v

\* C12 (amended): on a successful parse every known alias appears under its
\* canonical name and is never replaced by a backfill default; its value is
\* the one it came with when the name is not medicacoes and no later key of
\* the mapping has the same canonical name (the last one wins); medicacoes
\* is always rebuilt as a mapping with the three buckets.
C12_AliasRenamedBeforeBackfill ==
    (Parsed_ /\ pOut.stage /= "default") =>
        LET data == DecodedMapping(pIn.text)
            last(i) == \A j \in (i + 1)..Len(data) :
                           key_aliases(data[j].k) /= key_aliases(data[i].k)
        IN  \A i \in 1..Len(data) :
                IsKnownAlias(data[i].k) =>
                    LET canon == key_aliases(data[i].k)
                    IN  /\ Has(pOut.d, canon)
                        /\ (canon /= "medicacoes" /\ last(i)) =>
                              Get(pOut.d, canon) = data[i].v
                        /\ canon = "medicacoes" =>
                              /\ Get(pOut.d, canon).t = "dict"
                              /\ {"suspender", "manter", "ajustar"} \subseteq
                                     Keys(Get(pOut.d, canon).sub)

\* C12 witness: fenced text holding {"recommendations": ["x"]} was decoded
\* for the general keys: recomendacoes is ["x"] and resumo_executivo was
\* backfilled with the empty string.
C12_Witness ==
    /\ Parsed_ /\ pOut.stage = "json" /\ pIn.kind = "general"
    /\ pIn.text = Some(<<Tok("fence"), Tok("w"), Tok("nl"), Tok("{"),
                         Body("json", <<Item("recommendations", Val(LList(<<"x">>)))>>),
                         Tok("}"), Tok("nl"), Tok("fence")>>)
    /\ Get(pOut.d, "recomendacoes") = Val(LList(<<"x">>))
    /\ ~Has(pOut.d, "recommendations")
    /\ Get(pOut.d, "resumo_executivo") = Val(LStr(""))

\* C13 (as claimed): every result an analyze_* function returns, on the
\* first call and on cached calls, carries the raw model text it is paired
\* with under an audit key (_raw or _raw_text).
C13_ResultCarriesRawText ==
    \A c \in Callers :
        pc[c] = "done" =>
            \/ ret[c].result.hasRaw /\ ret[c].result.raw = ret[c].raw
            \/ ret[c].result.hasRawText /\ ret[c].result.rawText = ret[c].raw

Hashed == pOut /= NoKeys

\* C14 (as claimed): for a fixed namespace, altering any single field of the
\* payload (a value or a key, at any depth) changes the cache key.
C14_AnyAlterationChangesKey == Hashed => pOut.key /= pOut.alteredKey

\* A value with every tuple read as the list of its elements.
RECURSIVE AsJson(_)
AsJson(v) ==
    [t |-> IF v.t = "tuple" THEN "list" ELSE v.t,
     s |-> v.s,
     xs |-> [i \in 1..Len(v.xs) |-> Item(v.xs[i].k, AsJson(v.xs[i].v))]]

\* C14 (amended): for a fixed namespace, altering a single field of the
\* payload changes the cache key unless the alteration only turns a list
\* into the tuple of the same elements (or back), which json.dumps writes
\* alike.
C14_JsonAlterationChangesKey ==
    (Hashed /\ AsJson(JDict(pIn.payload)) /= AsJson(JDict(pIn.altered))) =>
        pOut.key /= pOut.alteredKey

\* C14 witness: a key of the nested patient dict was renamed and the cache
\* key changed.
C14_Witness ==
    /\ Hashed
    /\ Has(pIn.payload, "patient") /\ Has(pIn.altered, "patient")
    /\ Get(pIn.payload, "patient").t = "dict"
    /\ Has(Get(pIn.payload, "patient").xs, "age")
    /\ Get(pIn.altered, "patient").t = "dict"
    /\ ~Has(Get(pIn.altered, "patient").xs, "age")
    /\ Has(Get(pIn.altered, "patient").xs, "idade")
    /\ pOut.key /= pOut.alteredKey

-----------------------------------------------------------------------------
(* The score functions *)

\* The score function fn was called and came back.
Scored(fn) == pIn.fn = fn /\ pOut /= NoScore

\* C15: for every combination of the six factors, rcri_score returns the
\* number of true factors as score (each detail 0 or 1, score in 0..6), class
\* and percent I / 0.4 for 0, II / 0.9 for 1, III / 7.0 for 2 and IV / 11.0
\* from 3 on, and the category Baixo iff 0, Intermediário iff 1 or 2, Alto
\* iff 3 or more.
C15_RcriCountsFactors ==
    Scored("rcri_score") =>
        LET r == pOut.result
            n == Cardinality({f \in Range(RcriFactors) : pIn.a[f]})
        IN  /\ ~pOut.raised
            /\ r.score = n /\ r.score \in 0..6
            /\ \A i \in 1..Len(r.details) : r.details[i].v \in {0, 1}
            /\ <<r.class, r.risk_percent>> =
                   (CASE n = 0 -> <<"Classe I", 4>>
                      [] n = 1 -> <<"Classe II", 9>>
                      [] n = 2 -> <<"Classe III", 70>>
                      [] OTHER -> <<"Classe IV", 110>>)
            /\ r.risk_category = "Baixo" <=> n = 0
            /\ r.risk_category = "Intermediário" <=> n \in {1, 2}
            /\ r.risk_category = "Alto" <=> n >= 3

\* C15 witness: exactly two factors hold: Classe III, 7.0, Intermediário.
C15_Witness ==
    /\ Scored("rcri_score")
    /\ pIn.a.high_risk_surgery /\ pIn.a.creatinine_gt_2mg_dl
    /\ pOut.result.score = 2 /\ pOut.result.class = "Classe III"
    /\ pOut.result.risk_percent = 70 /\ pOut.result.risk_category = "Intermediário"

\* What the named details leave of the total.
Without(r, names) ==
    r.score - SumValues(SelectSeq(r.details, LAMBDA it : it.k \notin names))

\* C16: in ariscat_score the age contribution to the total is 16 when the
\* >80 flag is set (with or without the 51-80 flag, never 19), 3 with the
\* 51-80 flag alone and 0 with neither.
C16_AriscatAgeNotSummed ==
    Scored("ariscat_score") =>
        /\ ~pOut.raised
        /\ Without(pOut.result, {"age_51_80", "age_gt_80"}) =
               (IF pIn.a.age_gt_80 THEN 16 ELSE IF pIn.a.age_51_80 THEN 3 ELSE 0)
        /\ Get(pOut.result.details, "age_51_80") + Get(pOut.result.details, "age_gt_80")
               = Without(pOut.result, {"age_51_80", "age_gt_80"})

\* C16 witness: both age flags are set and age adds 16 to the total.
C16_Witness ==
    /\ Scored("ariscat_score")
    /\ pIn.a.age_51_80 /\ pIn.a.age_gt_80
    /\ Without(pOut.result, {"age_51_80", "age_gt_80"}) = 16

\* C17: in ariscat_score incision adds 24 if intrathoracic, else 15 if upper
\* abdominal, else 0; duration adds 23 if >3h, else 16 if 2-3h, else 0; the
\* total is the sum of the per-factor contributions.
C17_AriscatHighestOfBand ==
    Scored("ariscat_score") =>
        LET r == pOut.result
        IN  /\ Get(r.details, "incision") =
                   (IF pIn.a.incision_intrathoracic THEN 24
                    ELSE IF pIn.a.incision_abd_upper THEN 15 ELSE 0)
            /\ Get(r.details, "duration") =
                   (IF pIn.a.duration_gt_3h THEN 23
                    ELSE IF pIn.a.duration_2_to_3h THEN 16 ELSE 0)
            /\ Without(r, {"incision"}) = Get(r.details, "incision")
            /\ Without(r, {"duration"}) = Get(r.details, "duration")
            /\ r.score = SumValues(r.details)

\* C17 witness: both incision flags and both duration flags are set; the
\* total of 47 is 24 + 23.
C17_Witness ==
    /\ Scored("ariscat_score")
    /\ pIn.a.incision_abd_upper /\ pIn.a.incision_intrathoracic
    /\ pIn.a.duration_2_to_3h /\ pIn.a.duration_gt_3h
    /\ pOut.result.score = 47

\* C18: akics_score raises a validation error and returns nothing whenever
\* age is below 0 or above 120 or creatinine below 0 or above 20; age 0 and
\* 120 and creatinine 0 and 20 are accepted when the other inputs are valid.
C18_AkicsRangeChecked ==
    Scored("akics_score") =>
        LET a == pIn.a
            out == a.idade < 0 \/ a.idade > 120
                   \/ a.creatinina_mg_dl < 0 \/ a.creatinina_mg_dl > 200
            othersValid ==
                /\ a.tipo_cirurgia.core \in
                       {"coronariana", "valvar", "combinada", "nao_cardiaca"}
                /\ ~a.nao_cardiaca_complexidade.some
        IN  /\ out => pOut.raised /\ pOut.result = <<>>
            /\ (~out /\ othersValid) => ~pOut.raised /\ pOut.result /= <<>>

\* C18 witness: age 120 with creatinine 20.0 is accepted.
C18_Witness ==
    /\ Scored("akics_score")
    /\ pIn.a.idade = 120 /\ pIn.a.creatinina_mg_dl = 200
    /\ ~pOut.raised /\ pOut.result.categoria_risco = "Muito alto"

\* The admission groups pre_deliric_score knows.
KnownGroups ==
    {"clínico", "clinico", "cirúrgico", "cirurgico", "trauma", "neuro", "neurocirurgia"}

\* C19: pre_deliric_score raises a validation error and returns nothing iff
\* age is outside 0..120, APACHE-II outside 0..71, pH below 6.8 or above 7.8,
\* urea negative, creatinine not strictly positive or the admission group
\* unknown; pH 6.8 and 7.8 are accepted.
C19_PreDeliricRaisesIff ==
    Scored("pre_deliric_score") =>
        LET a == pIn.a
        IN  /\ pOut.raised <=>
                  \/ a.idade < 0 \/ a.idade > 120
                  \/ a.apache_ii < 0 \/ a.apache_ii > 710
                  \/ a.ph < 680 \/ a.ph > 780
                  \/ a.ureia_mg_dl < 0
                  \/ ~(a.creatinina_mg_dl > 0)
                  \/ a.grupo_admissao.core \notin KnownGroups
            /\ pOut.raised <=> pOut.result = <<>>

\* C19 witness: pH 6.8 is accepted (and scores as an acidosis).
C19_Witness ==
    /\ Scored("pre_deliric_score")
    /\ pIn.a.ph = 680
    /\ ~pOut.raised /\ Get(pOut.result.detalhes, "acidose_pts") = 2

\* C20: classify_asa raises a validation error for any class outside I..VI
\* after trimming and upper-casing; for a valid class the emergency modifier
\* appends the annotation to the risk tier of I..V and leaves VI unchanged.
C20_AsaValidatedAndAnnotated ==
    Scored("classify_asa") =>
        LET core == pIn.a.asa_class.core
            valid == core \in {"i", "ii", "iii", "iv", "v", "vi"}
        IN  /\ pOut.raised <=> ~valid
            /\ valid =>
                  /\ pOut.result.risk[1] = Get(ASA_BASE_RISK, LitUpper(core))
                  /\ pOut.result.risk[2] =
                         (IF pIn.a.emergency_modifier /\ core /= "vi"
                          THEN " (aumentado por emergência)" ELSE "")

\* C20 witness: " vi " with the emergency modifier keeps the tier N/A.
C20_Witness ==
    /\ Scored("classify_asa")
    /\ pIn.a.asa_class = Str("vi", "lower", TRUE) /\ pIn.a.emergency_modifier
    /\ ~pOut.raised /\ pOut.result.risk = <<"N/A", "">>

-----------------------------------------------------------------------------
(* Bands, totals and the second ARISCAT *)

\* The order of the risk categories, lowest first.
CategoryRank(category) ==
    CASE category = "Muito baixo" -> 1
      [] category = "Baixo" -> 2
      [] category \in {"Intermediário", "Moderado"} -> 3
      [] category = "Alto" -> 4
      [] category = "Muito alto" -> 5

\* The total, category and probability a score function reported, and the
\* band of any total of its range (AKICS in tenths of a point).
Reported(fn) ==
    LET r == pOut.result
    IN  CASE fn = "rcri_score" ->
                 [total |-> r.score, category |-> r.risk_category, prob |-> r.risk_percent]
          [] fn = "ariscat_score" ->
                 [total |-> r.score, category |-> r.risk_category,
                  prob |-> r.probability_cpp_percent]
          [] OTHER ->
                 [total |-> r.pontuacao_total, category |-> r.categoria_risco,
                  prob |-> r.probabilidade_percentual]

BandOf(fn, total) ==
    CASE fn = "rcri_score" ->
             [category |-> RcriClass(total).risk_category,
              prob |-> RcriClass(total).risk_percent]
      [] fn = "ariscat_score" ->
             [category |-> AriscatBand(total).risk_category,
              prob |-> AriscatBand(total).probability_cpp_percent]
      [] fn = "akics_score" ->
             [category |-> AkicsBand(total).categoria, prob |-> AkicsBand(total).prob]
      [] fn = "pre_deliric_score" ->
             [category |-> PreDeliricBand(total).categoria,
              prob |-> PreDeliricBand(total).prob]

TotalsOf(fn) ==
    CASE fn = "rcri_score" -> 0..6
      [] fn = "ariscat_score" -> 0..107
      [] fn = "akics_score" -> 0..250
      [] fn = "pre_deliric_score" -> 0..28

BandedScores == {"rcri_score", "ariscat_score", "akics_score", "pre_deliric_score"}

\* C21: for RCRI, ARISCAT, AKICS and PRE-DELIRIC the category and the
\* probability never decrease with the total: a result's category is the band
\* of its total, every smaller total has a band that is not higher and every
\* larger total a band that is not lower; the bands change at ARISCAT 26 and
\* 45, AKICS above 2, 5, 8 and 13, and PRE-DELIRIC above 4, 9 and 15.
C21_CategoryMonotonic ==
    \A fn \in BandedScores :
        (Scored(fn) /\ ~pOut.raised) =>
            LET mine == Reported(fn)
                edge(lo, hi) ==
                    CategoryRank(BandOf(fn, lo).category)
                        < CategoryRank(BandOf(fn, hi).category)
            IN  /\ mine.total \in TotalsOf(fn)
                /\ mine.category = BandOf(fn, mine.total).category
                /\ mine.prob = BandOf(fn, mine.total).prob
                /\ \A t \in TotalsOf(fn) :
                       LET other == BandOf(fn, t)
                       IN  /\ t <= mine.total =>
                                 /\ CategoryRank(other.category)
                                        <= CategoryRank(mine.category)
                                 /\ other.prob <= mine.prob
                           /\ t >= mine.total =>
                                 /\ CategoryRank(other.category)
                                        >= CategoryRank(mine.category)
                                 /\ other.prob >= mine.prob
                /\ fn = "ariscat_score" =>
                       {t \in 1..107 : edge(t - 1, t)} = {26, 45}
                /\ fn = "akics_score" =>
                       {t \in 1..250 : edge(t - 1, t)} = {21, 51, 81, 131}
                /\ fn = "pre_deliric_score" =>
                       {t \in 1..28 : edge(t - 1, t)} = {5, 10, 16}

\* C21 witness: an AKICS total of exactly 5.0 is still in the band Baixo.
C21_Witness ==
    /\ Scored("akics_score") /\ ~pOut.raised
    /\ pOut.result.pontuacao_total = 50
    /\ pOut.result.categoria_risco = "Baixo"
    /\ pOut.result.probabilidade_percentual = 80

-----------------------------------------------------------------------------
(* The order of the decoding strategies *)

\* What each strategy makes of a text: the mapping it yields, if any.
Yield(parsed) == [some |-> parsed.ok /\ parsed.isDict, data |-> parsed.data]
StrictParse(t) == Yield(json_loads(t))
BraceParse(t) ==
    LET l == Find(t, "{")
        r == RFind(t, "}")
    IN  IF l /= 0 /\ r > l THEN Yield(json_loads(SubSeq(t, l, r)))
        ELSE Yield(ParseFailed)
LiteralParse(t) == Yield(literal_eval(t))

\* C22: _parse_response_text strips the fence first and then tries the
\* strict JSON parse, the parse of the substring from the first { to the last
\* }, and the permissive literal parse, in this order: the result comes from
\* a strategy iff that strategy yields a mapping and no earlier one does, it
\* is the normalised and backfilled mapping of that first success, and the
\* defaults are synthesised iff no strategy yields a mapping.
C22_StrategiesInOrder ==
    Parsed_ =>
        LET t == StripFence(Strip(IF pIn.text.some THEN pIn.text.t ELSE <<>>))
            expected == IF ExpectedOf(pIn.kind).some THEN ExpectedOf(pIn.kind).v
                        ELSE ExpectedGeneral
            strict == StrictParse(t)
            brace == BraceParse(t)
            literal == LiteralParse(t)
            from(y) == /\ pOut.d = Backfill(_normalize_top_keys(y.data), expected)
                       /\ ~pOut.hasRawText
        IN  /\ pOut.stage \in {"json", "brace", "literal", "default"}
            /\ pOut.stage = "json" <=> strict.some
            /\ pOut.stage = "brace" <=> (~strict.some /\ brace.some)
            /\ pOut.stage = "literal" <=> (~strict.some /\ ~brace.some /\ literal.some)
            /\ pOut.stage = "default" <=>
                   (~strict.some /\ ~brace.some /\ ~literal.some)
            /\ pOut.stage = "json" => from(strict)
            /\ pOut.stage = "brace" => from(brace)
            /\ pOut.stage = "literal" => from(literal)
            /\ pOut.stage = "default" => pOut.hasRawText /\ pOut.rawText = t

\* C22 witness: a fenced object in Python syntax: the strict parse and the
\* parse between the braces fail and the literal parse gives the result.
C22_Witness ==
    /\ Parsed_ /\ pOut.stage = "literal"
    /\ pIn.text = Some(<<Tok("fence"), Tok("w"), Tok("nl"), Tok("{"), SamplePy,
                         Tok("}"), Tok("nl"), Tok("fence")>>)
    /\ Get(pOut.d, "recomendacoes") = Val(LList(<<"x">>))
    /\ ~pOut.hasRawText

-----------------------------------------------------------------------------
(* The text of one response *)

MaxCands == 2
MaxParts == 2

\* The text of a part: absent, empty, or one of two fragments.
PartTexts == {None, Some(<<>>), Some(<<Tok("w")>>), Some(<<Tok("lit")>>)}

\* The candidates of a response: malformed ones and ones with parts.
Candidates(nParts) ==
    {Cand(TRUE, <<>>)} \cup {Cand(FALSE, parts) : parts \in SeqsUpTo(PartTexts, nParts)}

\* The responses generate_content returns without raising: the direct text
\* is absent, empty or given.
ExtractInputs(nCands, nParts) ==
    [kind : {"ok"}, text : {None, Some(<<>>), Some(ProseText)},
     cands : SeqsUpTo(Candidates(nParts), nCands)]

NoText == [done |-> FALSE, text |-> None]

InitExtract ==
    /\ InitPipeline
    /\ pIn \in ExtractInputs(MaxCands, MaxParts)
    /\ pOut = NoText

\* Lines 314-334 of one attempt.
Extract ==
    /\ pOut = NoText
    /\ pOut' = [done |-> TRUE, text |-> ExtractText(pIn)]
    /\ UNCHANGED <<cache, pc, call, ret, runs, firstRet, pIn>>

NextExtract == Extract

SpecExtract == InitExtract /\ [][NextExtract]_vars

\* The non-empty text fragments of a candidate, in the order of its parts,
\* and their texts joined by line breaks.
Fragments(cand) ==
    IF cand.bad THEN <<>> ELSE SelectSeq(cand.parts, LAMBDA pt : pt.some /\ pt.t /= <<>>)
RECURSIVE Joined(_)
Joined(frags) ==
    IF frags = <<>> THEN <<>>
    ELSE IF Len(frags) = 1 THEN frags[1].t
    ELSE frags[1].t \o <<Tok("nl")>> \o Joined(Tail(frags))
RECURSIVE AllFragments(_)
AllFragments(cands) ==
    IF cands = <<>> THEN <<>> ELSE Fragments(Head(cands)) \o AllFragments(Tail(cands))

Extracted == pOut /= NoText
DirectMissing == ~(pIn.text.some /\ pIn.text.t /= <<>>)

\* C23 (as claimed): when the direct text is absent or empty, the text of
\* the attempt is every text fragment of every well-formed candidate, in
\* order; a malformed candidate is skipped and the walk goes on.
C23_EveryFragmentConcatenated ==
    (Extracted /\ DirectMissing /\ AllFragments(pIn.cands) /= <<>>) =>
        pOut.text = Some(Joined(AllFragments(pIn.cands)))

\* C23 (amended): when the direct text is absent or empty, the text of the
\* attempt is the text fragments of the first well-formed candidate that
\* holds any, joined by line breaks; later candidates are not read; a
\* malformed candidate is skipped and the walk goes on; with no fragment at
\* all the text stays absent or empty.
C23_FirstCandidateWithText ==
    (Extracted /\ DirectMissing) =>
        LET holding == {i \in 1..Len(pIn.cands) : Fragments(pIn.cands[i]) /= <<>>}
        IN  IF holding = {}
            THEN pOut.text = pIn.text
            ELSE LET first == CHOOSE i \in holding : \A j \in holding : i <= j
                 IN  pOut.text = Some(Joined(Fragments(pIn.cands[first])))

\* C23 witness: a malformed candidate is followed by one with two fragments,
\* which are joined.
C23_Witness ==
    /\ Extracted /\ pIn.text = None
    /\ pIn.cands = <<Cand(TRUE, <<>>), Cand(FALSE, <<Some(<<Tok("w")>>), Some(<<Tok("lit")>>)>>)>>
    /\ pOut.text = Some(<<Tok("w"), Tok("nl"), Tok("lit")>>)

-----------------------------------------------------------------------------
(* Two callers at once *)

\* The analyze_* functions take no lock: between the cache lookup of one
\* caller and its store, the other caller may take any of its steps.
\* Both callers run the same analyze_* function under one configuration
\* (one attempt per run; the model may or may not be available).
LookupShared(c) ==
    /\ pc[c] = "idle"
    /\ \E fn \in Functions, payload \in Payloads, available \in BOOLEAN :
           /\ \A id \in DOMAIN runs : id[1] = fn
           /\ Call(c, fn, payload, 1, available)

NextConcurrent ==
    \E c \in Callers :
        \/ LookupShared(c)
        \/ \E resp \in Responses : Attempt(c, resp)
        \/ Finish(c)
        \/ Return(c)

SpecConcurrent == Init /\ [][NextConcurrent]_vars

\* The caller c ran the remote service for its call (the lookup missed and
\* generate_content was called).
Invoked(c) == ~call[c].hit /\ call[c].made >= 1

\* C24: with two callers of one analyze_* function, both may pass the cache
\* lookup for the same payload before either stores (the runs of a payload
\* number at most the callers); whoever finished has its key in the cache,
\* there are never more entries than payloads that ran, and a call that
\* begins when the key is stored is served from the cache without a run.
C24_RedundantRunsThenOneEntry ==
    [][ /\ \A c \in Callers :
             (pc[c] = "idle" /\ pc'[c] /= "idle" /\ call'[c].key \in DOMAIN cache) =>
                 /\ pc'[c] = "done" /\ call'[c].hit /\ call'[c].made = 0
                 /\ runs' = runs
                 /\ ret'[c].result = cache[call'[c].key]
        /\ \A c \in Callers :
             (pc'[c] = "done" /\ ~call'[c].hit) => call'[c].key \in DOMAIN cache'
        /\ Cardinality(DOMAIN cache') <= Cardinality(DOMAIN runs')
        /\ \A id \in DOMAIN runs' : runs'[id] <= Cardinality(Callers) ]_vars

\* C24 witness: both callers missed the lookup for the same key, both called
\* the remote service and both finished: the payload ran twice and the cache
\* holds one entry.
C24_Witness ==
    /\ pc["a"] = "done" /\ pc["b"] = "done"
    /\ call["a"].key = call["b"].key
    /\ Invoked("a") /\ Invoked("b")
    /\ runs[PayloadId(call["a"].fn, call["a"].payload)] = 2
    /\ DOMAIN cache = {call["a"].key}

-----------------------------------------------------------------------------
(* Degraded outcomes in the cache *)

\* The entry stored for the key is the one of a call that got no text.
DegradedEntry(key) == key \in DOMAIN cache /\ cache[key].stage = "degraded"

\* C25: a call in which the remote service yielded no text stores the
\* fallback or default structure with an empty raw text; from then on the
\* entry is never replaced, and every call with that payload returns it,
\* with the empty raw text, without running the remote service, whether or
\* not a model is available by then.
C25_DegradedOutcomeCached ==
    [][ /\ \A c \in Callers :
             (pc[c] = "got" /\ pc'[c] = "done" /\ ~TextTruthy(call[c].text)) =>
                 cache'[call[c].key] = WithRaw(Degraded(call[c].fn), <<>>)
        /\ \A key \in DOMAIN cache :
             DegradedEntry(key) => (key \in DOMAIN cache' /\ cache'[key] = cache[key])
        /\ \A c \in Callers :
             (pc[c] = "idle" /\ pc'[c] /= "idle" /\ DegradedEntry(call'[c].key)) =>
                 /\ pc'[c] = "done" /\ call'[c].hit /\ call'[c].made = 0
                 /\ runs' = runs
                 /\ ret'[c].result = WithRaw(Degraded(call'[c].fn), <<>>)
                 /\ ret'[c].raw = <<>> ]_vars

\* C25 witness: a call of analyze_scores_interpretation is served the
\* defaults stored by an earlier call that got no text; the payload ran once.
C25_Witness ==
    /\ pc["a"] = "done" /\ call["a"].hit /\ call["a"].fn = "scores"
    /\ DegradedEntry(call["a"].key)
    /\ ret["a"].result.d = DefaultsScores
    /\ ret["a"].result.hasRaw /\ ret["a"].result.raw = <<>> /\ ret["a"].raw = <<>>
    /\ runs[PayloadId("scores", call["a"].payload)] = 1

-----------------------------------------------------------------------------
(* analyze_medications and the shared decoding *)

\* C26 (as claimed): whenever _parse_response_text recovers a mapping from
\* the raw text (fenced JSON and JSON inside prose included),
\* analyze_medications returns the suspender, manter and ajustar lists that
\* mapping supplies, not empty buckets.
C26_MedicationsDecodesAsShared ==
    \A c \in Callers :
        (/\ Computed(c) /\ call[c].fn = "medications" /\ TextTruthy(call[c].text)
         /\ _parse_response_text(call[c].text, Opt(ExpectedMedications),
                                 Opt(DefaultsMedications)).stage /= "default") =>
            ret[c].result.d =
                MedsBuckets(DecodedMapping(call[c].text),
                            <<Item("suspender", Val(LList(<<>>))),
                              Item("manter", Val(LList(<<>>))),
                              Item("ajustar", Val(LList(<<>>)))>>)

-----------------------------------------------------------------------------
(* The two ARISCAT implementations *)

\* The arguments of ariscat_score that say what the flags a of
\* calculate_ariscat say, when no SpO2 flag is set.
AsAriscatScoreFlags(a) ==
    [age_51_80 |-> a.age_51_80, age_gt_80 |-> a.age_gt_80, spo2_le_95 |-> FALSE,
     resp_infection_last_month |-> a.resp_infection_last_month,
     anemia_hb_le_10 |-> a.anemia,
     incision_abd_upper |-> a.surgery_upper_abdominal,
     incision_intrathoracic |-> a.surgery_intrathoracic,
     duration_2_to_3h |-> a.duration_2_to_3h, duration_gt_3h |-> a.duration_gt_3h,
     emergency_surgery |-> a.emergency_surgery]

\* C27 (as claimed): for every combination of the flags both functions take,
\* with no SpO2 flag set, calculate_ariscat returns the total and the
\* category ariscat_score returns, also when both age flags, both incision
\* flags or both duration flags are set.
C27_AriscatImplementationsAgree ==
    (Scored("calculate_ariscat") /\ ~pIn.a.low_spo2 /\ ~pIn.a.very_low_spo2) =>
        LET other == ariscat_score(AsAriscatScoreFlags(pIn.a))
        IN  /\ ~pOut.raised /\ ~other.raised
            /\ pOut.result.score = other.result.score
            /\ pOut.result.risk_category = other.result.risk_category

-----------------------------------------------------------------------------
(* The namespaces of the cache *)

\* C28: for the same payload the three analyze_* functions use three
\* different keys; a call is served from the cache only with what a call of
\* the same function stored for this payload, and the first call of each
\* function with a payload runs _run_gemini, whatever the other functions
\* stored.
C28_NamespacesNeverCollide ==
    [][\A c \in Callers :
           (pc[c] = "idle" /\ pc'[c] /= "idle") =>
               LET fn == call'[c].fn
                   payload == call'[c].payload
                   id == PayloadId(fn, payload)
               IN  /\ \A other \in Functions \ {fn} :
                          call'[c].key /=
                              _hash_patient_payload(payload, NamespaceOf(other))
                   /\ call'[c].hit =>
                          /\ id \in DOMAIN firstRet
                          /\ ret'[c].result = WithRaw(firstRet[id].result, firstRet[id].raw)
                   /\ id \notin DOMAIN runs =>
                          (~call'[c].hit /\ runs'[id] = 1) ]_vars

\* C28 witness: analyze_medications missed the cache and ran for a payload
\* whose analyze_general entry is stored.
C28_Witness ==
    /\ pc["a"] = "done" /\ call["a"].fn = "medications" /\ ~call["a"].hit
    /\ runs[PayloadId("medications", call["a"].payload)] = 1
    /\ _hash_patient_payload(call["a"].payload, NamespaceOf("general")) \in DOMAIN cache
    /\ call["a"].key \in DOMAIN cache
    /\ cache[call["a"].key].stage = "medications"

-----------------------------------------------------------------------------
(* The schema of the score interpretation *)

\* C29 (as claimed): the mapping analyze_scores_interpretation returns has
\* no keys other than its seven expected keys, the keys the model supplied
\* (after alias renaming) and the audit key; no key of the general-analysis
\* schema appears that the model did not supply.
C29_ScoresSchemaFixed ==
    \A c \in Callers :
        (Computed(c) /\ call[c].fn = "scores") =>
            LET r == ret[c].result
                supplied == IF r.stage \in {"json", "brace", "literal"}
                            THEN Supplied(call[c].text) ELSE {}
            IN  Keys(r.d) \subseteq (Range(ExpectedScores) \cup supplied)

-----------------------------------------------------------------------------
(* Totals and breakdowns *)

\* The sum of the values of the items whose key is in names.
SumOf(d, names) == SumValues(SelectSeq(d, LAMBDA it : it.k \in names))

\* C30: whenever a score function returns, the total it reports is the sum
\* of the breakdown it reports: score and details for rcri_score and
\* ariscat_score, pontuacao_total and detalhes for akics_score, and
\* pontuacao_total and the detalhes whose name ends in _pts (all but
\* ureia_creatinina_ratio) for pre_deliric_score; RCRI lies in 0..6, ARISCAT
\* in 0..107 and PRE-DELIRIC in 0..28.
C30_TotalIsSumOfBreakdown ==
    /\ (Scored("rcri_score") /\ ~pOut.raised) =>
           /\ pOut.result.score = SumOf(pOut.result.details, Keys(pOut.result.details))
           /\ pOut.result.score \in 0..6
    /\ (Scored("ariscat_score") /\ ~pOut.raised) =>
           /\ pOut.result.score = SumOf(pOut.result.details, Keys(pOut.result.details))
           /\ pOut.result.score \in 0..107
    /\ (Scored("akics_score") /\ ~pOut.raised) =>
           pOut.result.pontuacao_total =
               SumOf(pOut.result.detalhes, Keys(pOut.result.detalhes))
    /\ (Scored("pre_deliric_score") /\ ~pOut.raised) =>
           /\ pOut.result.pontuacao_total =
                  SumOf(pOut.result.detalhes,
                        Keys(pOut.result.detalhes) \ {"ureia_creatinina_ratio"})
           /\ pOut.result.pontuacao_total \in 0..28
           /\ Has(pOut.result.detalhes, "ureia_creatinina_ratio")

\* C30 witness: an AKICS total of 12.0 is the sum of nine components, among
\* them 6.5 for the age and 0.5 for a non-cardiac surgery of medium
\* complexity.
C30_Witness ==
    /\ Scored("akics_score") /\ ~pOut.raised
    /\ pIn.a.idade = 65 /\ pIn.a.emergencia
    /\ Get(pOut.result.detalhes, "idade/10") = 65
    /\ Has(pOut.result.detalhes, "nao_cardiaca_complexidade_media")
    /\ Get(pOut.result.detalhes, "nao_cardiaca_complexidade_media") = 5
    /\ pOut.result.pontuacao_total = 120
    /\ SumValues(pOut.result.detalhes) = 120

====
